---- MODULE Spec2Model ----
(***************************************************************************)
(* OpenHantek scope view: the waveform history of GlScope (showData,       *)
(* paintGL) and the cursor/marker interaction of GlScope                   *)
(* (mousePressEvent, mouseMoveEvent, mouseReleaseEvent) together with the  *)
(* DsoWidget handlers they call.                                           *)
(*                                                                         *)
(* Marker and pointer coordinates are kept in hundredths of a grid         *)
(* division, so that DIVS_TIME / 100.0 and DIVS_VOLTAGE / 100.0 are whole  *)
(* numbers of units.                                                       *)
(***************************************************************************)
EXTENDS Integers, Sequences, FiniteSets, TLC

\* ------------------------------------------------------------------------
\* Bounds of the model
\* ------------------------------------------------------------------------

\* Largest value view->digitalPhosphorDraws() takes.
MaxCapacity == 3

\* Number of sample frames delivered to showData.
MaxFrames == 5

\* scope->voltage.size() and scope->spectrum.size(): channels of the device.
NumChannels == 1

\* ------------------------------------------------------------------------
\* State
\* ------------------------------------------------------------------------

VARIABLES
    shaderCompileSuccess,   \* GlScope::shaderCompileSuccess
    m_program,              \* GlScope::m_program is set (non-null)
    phosphorDraws,          \* the value view->digitalPhosphorDraws() returns
    m_GraphHistory,         \* std::list<Graph>, front first; a Graph is
                            \*   [slot |-> list node, frame |-> data written]
    allocated,              \* number of list nodes allocated so far
    delivered,              \* number of showData calls so far (data ids)
    inserted,               \* number of showData calls that passed line 251
    insertCaps,             \* the capacities those calls read
    before,                 \* m_GraphHistory on entry of the last such call
    afterTrim,              \* m_GraphHistory after line 254 of the last call
    afterGrow,              \* m_GraphHistory after line 257 of the last call
    drawn,                  \* frames drawn by the last paintGL, in draw order
    traces,                 \* glDrawArrays calls of the last paintGL for channel
                            \*   graphs: [kind, channel, frame, historyIndex,
                            \*   factor], in draw order
    outlines,               \* glDrawArrays calls of the last paintGL for cursor
                            \*   outlines: [cursor, lineWidth], in draw order
    usedAtInsert,           \* the used flags of the channels at the showData
                            \*   call that wrote a frame, per frame
    pmvMatrix,              \* GlScope::pmvMatrix: the <<width, height>> its
                            \*   projection was set for, <<0, 0>> before
    fault,                  \* an element of an empty list was accessed
    cursorInfo,             \* GlScope::cursorInfo: the cursors of the scope
                            \*   settings, [shape, position[0..1]] each
    selectedCursor,         \* GlScope::selectedCursor (main view)
    selectedMarker,         \* GlScope::selectedMarker (main view)
    vaMarker,               \* GlScope::vaMarker: four vertices per cursor
    m_marker,               \* GlScope::m_marker, the GPU buffer of the marker
                            \*   vertices: whether create() and whether
                            \*   write() was called on it
    markerSlider,           \* mainSliders.markerSlider values
    emitted,                \* markerMoved signals of the last handler, each
                            \*   with the positions its slot saw
    drag,                   \* moves since a pointer-down that hit no marker
    pointer,                \* `position` of the last pointer event handled
    voltageUsed,            \* scope->voltage[channel].used
    spectrumUsed,           \* scope->spectrum[channel].used
    markerInfo,             \* DsoWidget::markerInfo: the CursorInfo of the time
                            \*   markers, [selector, shape, deltaXLabel, deltaYLabel]
    voltageCursors,         \* DsoWidget::voltageCursors, a CursorInfo per channel
    spectrumCursors,        \* DsoWidget::spectrumCursors, a CursorInfo per channel
    markerTimeLabel,        \* text of DsoWidget::markerTimeLabel
    markerFrequencyLabel,   \* text of DsoWidget::markerFrequencyLabel
    triggerPosition,        \* scope->trigger.position, a fraction [num, den]
    mainTriggerPositionSlider,  \* value of mainSliders.triggerPositionSlider
    zoomTriggerPositionSlider,  \* zoomSliders.triggerPositionSlider,
                                \*   [enabled, value]
    offset,                 \* scope->voltage[channel].offset at index channel,
                            \*   scope->spectrum[channel].offset at index
                            \*   scope->voltage.size() + channel
    triggerLevel,           \* scope->voltage[channel].trigger
    offsetSlider,           \* the values of mainSliders.offsetSlider (main) and
                            \*   zoomSliders.offsetSlider (zoom), per index
    triggerLevelSlider,     \* mainSliders.triggerLevelSlider (main) and
                            \*   zoomSliders.triggerLevelSlider (zoom): per
                            \*   channel [value, minimum, maximum]
    signals,                \* the signals emitted by the last handler: the
                            \*   sliders' valueChanged, and offsetChanged,
                            \*   triggerLevelChanged, triggerPositionChanged
    zeroWidth,              \* the zoom mapping was evaluated with both time
                            \*   markers at one x position
    lastOp                  \* the handler that ran last

historyVars ==
    <<shaderCompileSuccess, m_program, phosphorDraws, m_GraphHistory, allocated,
      delivered, inserted, insertCaps, before, afterTrim, afterGrow, drawn, traces,
      outlines, usedAtInsert, pmvMatrix, fault>>

pointerVars ==
    <<cursorInfo, selectedCursor, selectedMarker, vaMarker, m_marker, markerSlider,
      emitted, drag, pointer>>

widgetVars ==
    <<voltageUsed, spectrumUsed, markerInfo, voltageCursors, spectrumCursors,
      markerTimeLabel, markerFrequencyLabel, triggerPosition, mainTriggerPositionSlider, zoomTriggerPositionSlider,
      offset, triggerLevel, offsetSlider, triggerLevelSlider, signals, zeroWidth>>

vars == <<historyVars, pointerVars, widgetVars, lastOp>>

\* ------------------------------------------------------------------------
\* std::list<Graph> operations used by showData
\* ------------------------------------------------------------------------

\* A frame id of 0 is a default-constructed Graph (nothing written yet).
EMPTY_FRAME == 0

\* The storage front() designates in an empty list: no node of the list.
NO_SLOT == 0

Min(a, b) == IF a < b THEN a ELSE b

\* std::list::pop_back on a non-empty list.
pop_back(h) == SubSeq(h, 1, Len(h) - 1)

\* Variant of the loop of line 254 that drops from the front (pop_front).
RemoveTooMuch_PopFront(h, draws) ==
    IF draws < Len(h) THEN SubSeq(h, Len(h) - draws + 1, Len(h)) ELSE h

\* Line 254: while (digitalPhosphorDraws() < size()) pop_back();
RECURSIVE RemoveTooMuch(_, _)
RemoveTooMuch(h, draws) ==
    IF draws < Len(h) THEN RemoveTooMuch(pop_back(h), draws) ELSE h

\* std::list::resize(n) for n >= size(): appends default-constructed Graphs in
\* freshly allocated nodes, numbered after the `alloc` nodes allocated before.
RECURSIVE resize(_, _, _)
resize(h, n, alloc) ==
    IF Len(h) < n
        THEN resize(Append(h, [slot |-> alloc + 1, frame |-> EMPTY_FRAME]), n, alloc + 1)
        ELSE h

\* Variant of line 257 that resizes to the capacity at once.
AddIfMissing_ToCapacity(h, draws, alloc) ==
    IF draws > Len(h) THEN resize(h, draws, alloc) ELSE h

\* Line 257: if (digitalPhosphorDraws() > size()) resize(size() + 1);
AddIfMissing(h, draws, alloc) ==
    IF draws > Len(h) THEN resize(h, Len(h) + 1, alloc) ELSE h

\* Variant of line 260 that leaves the list as it is (the write then lands
\* on the newest frame).
MoveLastToFront_NoMove(h) == h

\* Line 260: splice(begin(), list, std::prev(end())) on a non-empty list:
\* relinks the last node before the first one; no node is created or destroyed.
MoveLastToFront(h) == <<h[Len(h)]>> \o SubSeq(h, 1, Len(h) - 1)

\* Line 263: front().writeData(data, ...) on a non-empty list.
WriteFront(h, data) == [h EXCEPT ![1].frame = data]

\* ------------------------------------------------------------------------
\* Cursors, markers and the grid
\* ------------------------------------------------------------------------

\* Grid divisions of the time and the voltage axis (viewconstants.h).
DIVS_TIME == 10

DIVS_VOLTAGE == 8

\* Markers per cursor.
MARKER_COUNT == 2

\* The value of selectedMarker when no marker is selected: an unsigned value
\* above every marker index (the largest integer of the model checker; the
\* handlers only compare it with marker indexes).
NO_MARKER == 2147483647

\* A length in grid divisions, in the units positions are kept in.
Hundredths(divs) == 100 * divs

\* DsoSettingsScopeCursor::CursorShape.
CursorShapes == {"NONE", "HORIZONTAL", "VERTICAL", "RECTANGULAR"}

Markers == 0..(MARKER_COUNT - 1)

\* cursorInfo: the time markers, then one cursor per voltage channel, then
\* one per spectrum channel (constructor, lines 57-65).
NumCursors == 1 + NumChannels + NumChannels

CursorIds == 0..(NumCursors - 1)

\* Size of the widget in pixels: one pixel is a hundredth of a division.
width == 1000

height == 800

\* Lines 73-74, 103-104, 123-124: the event's pixel to a grid position.
EventPosition(ex, ey) ==
    [x |-> ((ex - width \div 2) * Hundredths(DIVS_TIME)) \div width,
     y |-> ((height \div 2 - ey) * Hundredths(DIVS_VOLTAGE)) \div height]

\* Pixels the pointer events are delivered at. Relative to the default
\* marker 0 at (-1, -1) the first three lie inside the snap area on both
\* axes, on x only and on y only. The last two are the grid positions (0, 0)
\* and (0.1, 0.08): each lies exactly on the border of the other's snap area
\* on both axes, also in the doubles of the code, where 100.0 / 1000.0 and
\* DIVS_TIME / 100.0 are the same number (as are 64.0 / 800.0 and
\* DIVS_VOLTAGE / 100.0). No other pair of positions lies on a border.
PointerPixels ==
    {<<409, 493>>, <<409, 480>>, <<430, 493>>, <<500, 400>>, <<510, 392>>}

Buttons == {"LeftButton", "RightButton"}

Abs(a) == IF a < 0 THEN -a ELSE a

\* DsoSettingsScopeCursor as the settings hold it before any interaction.
DefaultPosition ==
    [m \in Markers |->
        IF m = 0 THEN [x |-> -Hundredths(1), y |-> -Hundredths(1)]
                 ELSE [x |-> Hundredths(1), y |-> Hundredths(1)]]

\* Lines 79-82.
captureX(cursor) == cursor.shape = "RECTANGULAR" \/ cursor.shape = "VERTICAL"

\* Variant of line 81-82 that captures on y for every visible shape.
captureY_AnyShape(cursor) == cursor.shape # "NONE"

captureY(cursor) == cursor.shape = "RECTANGULAR" \/ cursor.shape = "HORIZONTAL"

\* Variant of the x test of line 84 that accepts the border of the snap area.
SnapsX_Inclusive(cursor, marker, position, distance) ==
    /\ captureX(cursor)
    /\ Abs(cursor.position[marker].x - position.x)
           <= Min(distance.x, Hundredths(DIVS_TIME) \div 100)

\* Line 84: the x test of one marker against the snap area and the nearest
\* x distance so far.
SnapsX(cursor, marker, position, distance) ==
    /\ captureX(cursor)
    /\ Abs(cursor.position[marker].x - position.x)
           < Min(distance.x, Hundredths(DIVS_TIME) \div 100)

\* Variant of the y test in which a marker as near as the nearest so far
\* replaces it.
SnapsY_TiesTakeLater(cursor, marker, position, distance) ==
    /\ captureY(cursor)
    /\ Abs(cursor.position[marker].y - position.y) <= distance.y
    /\ Abs(cursor.position[marker].y - position.y) < Hundredths(DIVS_VOLTAGE) \div 100

\* Line 88: the y test.
SnapsY(cursor, marker, position, distance) ==
    /\ captureY(cursor)
    /\ Abs(cursor.position[marker].y - position.y)
           < Min(distance.y, Hundredths(DIVS_VOLTAGE) \div 100)

\* Lines 84-91: one iteration of the marker loop on the loop state
\* [distance, selectedMarker].
CaptureMarker(cursor, marker, position, st) ==
    LET afterX ==
            IF SnapsX(cursor, marker, position, st.distance)
                THEN [distance |-> [st.distance EXCEPT
                                       !.x = Abs(cursor.position[marker].x - position.x)],
                      selectedMarker |-> marker]
                ELSE st
    IN  IF SnapsY(cursor, marker, position, afterX.distance)
            THEN [distance |-> [afterX.distance EXCEPT
                                   !.y = Abs(cursor.position[marker].y - position.y)],
                  selectedMarker |-> marker]
            ELSE afterX

\* Lines 75-92: the loop over the markers from `marker` on.
RECURSIVE CaptureFrom(_, _, _, _)
CaptureFrom(cursor, marker, position, st) ==
    IF marker < MARKER_COUNT
        THEN CaptureFrom(cursor, marker + 1, position,
                         CaptureMarker(cursor, marker, position, st))
        ELSE st

\* Lines 75-92: the marker mousePressEvent selects, or NO_MARKER.
CaptureNearest(cursor, position) ==
    CaptureFrom(cursor, 0, position,
                [distance |-> [x |-> Hundredths(DIVS_TIME), y |-> Hundredths(DIVS_VOLTAGE)],
                 selectedMarker |-> NO_MARKER]).selectedMarker

\* Variant of generateVertices whose Rectangular case lists the corners
\* diagonal first.
generateVertices_DiagonalFirst(cursor) ==
    LET T == Hundredths(DIVS_TIME)
        V == Hundredths(DIVS_VOLTAGE)
        p == cursor.position
    IN  CASE cursor.shape = "NONE" ->
                 <<[x |-> -T, y |-> -V], [x |-> -T, y |-> V],
                   [x |-> T, y |-> V], [x |-> T, y |-> -V]>>
          [] cursor.shape = "VERTICAL" ->
                 <<[x |-> p[0].x, y |-> -V], [x |-> p[0].x, y |-> V],
                   [x |-> p[1].x, y |-> V], [x |-> p[1].x, y |-> -V]>>
          [] cursor.shape = "HORIZONTAL" ->
                 <<[x |-> -T, y |-> p[0].y], [x |-> T, y |-> p[0].y],
                   [x |-> T, y |-> p[1].y], [x |-> -T, y |-> p[1].y]>>
          [] cursor.shape = "RECTANGULAR" ->
                 <<[x |-> p[0].x, y |-> p[0].y], [x |-> p[1].x, y |-> p[1].y],
                   [x |-> p[0].x, y |-> p[1].y], [x |-> p[1].x, y |-> p[0].y]>>

\* GlScope::generateVertices: the outline of one cursor.
generateVertices(cursor) ==
    LET T == Hundredths(DIVS_TIME)
        V == Hundredths(DIVS_VOLTAGE)
        p == cursor.position
    IN  CASE cursor.shape = "NONE" ->
                 <<[x |-> -T, y |-> -V], [x |-> -T, y |-> V],
                   [x |-> T, y |-> V], [x |-> T, y |-> -V]>>
          [] cursor.shape = "VERTICAL" ->
                 <<[x |-> p[0].x, y |-> -V], [x |-> p[0].x, y |-> V],
                   [x |-> p[1].x, y |-> V], [x |-> p[1].x, y |-> -V]>>
          [] cursor.shape = "HORIZONTAL" ->
                 <<[x |-> -T, y |-> p[0].y], [x |-> T, y |-> p[0].y],
                   [x |-> T, y |-> p[1].y], [x |-> -T, y |-> p[1].y]>>
          [] cursor.shape = "RECTANGULAR" ->
                 <<[x |-> p[0].x, y |-> p[0].y], [x |-> p[0].x, y |-> p[1].y],
                   [x |-> p[1].x, y |-> p[1].y], [x |-> p[1].x, y |-> p[0].y]>>

\* ------------------------------------------------------------------------
\* Fractions: values of the trigger position and of the zoom mapping
\* ------------------------------------------------------------------------

Sign(a) == IF a < 0 THEN -1 ELSE IF a > 0 THEN 1 ELSE 0

Max(a, b) == IF a < b THEN b ELSE a

RECURSIVE GCD(_, _)
GCD(a, b) == IF b = 0 THEN a ELSE GCD(b, a % b)

\* The double n / d in lowest terms. A division by zero gives what IEEE
\* arithmetic gives: +infinity [1, 0], -infinity [-1, 0] or NaN [0, 0].
Ratio(n, d) ==
    IF d = 0
        THEN [num |-> Sign(n), den |-> 0]
        ELSE LET g == GCD(Abs(n), Abs(d))
             IN  [num |-> (Sign(d) * n) \div g, den |-> Abs(d) \div g]

IsNaN(a) == a.num = 0 /\ a.den = 0

\* a <= b and a < b of doubles: false when an operand is NaN.
LessEq(a, b) == ~IsNaN(a) /\ ~IsNaN(b) /\ a.num * b.den <= b.num * a.den

Less(a, b) == ~IsNaN(a) /\ ~IsNaN(b) /\ a.num * b.den < b.num * a.den

\* ------------------------------------------------------------------------
\* DsoWidget: measurement labels, zoom mapping, sliders
\* ------------------------------------------------------------------------

\* Channels of the scope settings; the cursor of voltage channel ch is
\* cursorInfo[1 + ch], that of spectrum channel ch cursorInfo[1 + V + ch].
Channels == 0..(NumChannels - 1)

\* Variant of the order of the cursors with the voltage channels last.
VoltageCursor_AfterSpectrum(channel) == 1 + NumChannels + channel

VoltageCursor(channel) == 1 + channel

SpectrumCursor(channel) == 1 + NumChannels + channel

\* scope->horizontal.timebase and frequencybase, scope->gain(channel) and
\* scope->spectrum[channel].magnitude: scale factors per division. The
\* timebase is in half milliseconds per division (2: 1e-3 s/div), the gain
\* in tenths of a volt per division (5: 0.5 V/div); a time delta is thus in
\* units of 5 microseconds, a voltage delta in millivolts.
timebase == 2

frequencybase == 3

gain(channel) == 5

magnitude(channel) == 7

\* QString(): the empty text.
QString == <<>>

\* valueToString(value, unit, precision): the text of a value with its unit;
\* values are in hundredths of a division times the scale factor.
valueToString(value, unit) == <<value, unit>>

\* Limits of the trigger position sliders (setupSliders, line 365).
minimum == [num |-> 0, den |-> 1]

maximum == [num |-> 1, den |-> 1]

\* The indexes of the offset sliders: the voltage channels, then the
\* spectrum channels (setupSliders, lines 345-360).
OffsetIndexes == 0..(2 * NumChannels - 1)

\* LevelSlider::setLimits: the slider takes the limits.
setLimits(slider, lowest, highest) ==
    [slider EXCEPT !.minimum = lowest, !.maximum = highest]

\* The limits adaptTriggerLevelSlider gives the trigger level slider of a
\* channel with the given offset (lines 396-398), on a slider holding
\* `value`: the voltages at the bottom and at the top of the grid.
TriggerLevelLimits(value, channel, channelOffset) ==
    setLimits([value |-> value, minimum |-> 0, maximum |-> 0],
              (-(Hundredths(DIVS_VOLTAGE) \div 2) - channelOffset) * gain(channel),
              (Hundredths(DIVS_VOLTAGE) \div 2 - channelOffset) * gain(channel))

\* The part of the state the handlers of one event work on.
World == [cursorInfo |-> cursorInfo, vaMarker |-> vaMarker, m_marker |-> m_marker,
          markerSlider |-> markerSlider, emitted |-> <<>>,
          voltageUsed |-> voltageUsed, spectrumUsed |-> spectrumUsed,
          markerInfo |-> markerInfo, voltageCursors |-> voltageCursors,
          spectrumCursors |-> spectrumCursors,
          markerTimeLabel |-> markerTimeLabel,
          markerFrequencyLabel |-> markerFrequencyLabel,
          triggerPosition |-> triggerPosition,
          mainTriggerPositionSlider |-> mainTriggerPositionSlider,
          zoomTriggerPositionSlider |-> zoomTriggerPositionSlider,
          offset |-> offset, triggerLevel |-> triggerLevel,
          offsetSlider |-> offsetSlider, triggerLevelSlider |-> triggerLevelSlider,
          signals |-> <<>>, zeroWidth |-> zeroWidth]

\* GlScope::markerUpdated: every cursor's outline is generated anew.
markerUpdated(w) ==
    [w EXCEPT !.vaMarker = [c \in CursorIds |-> generateVertices(w.cursorInfo[c])],
              !.m_marker.written = TRUE]

\* hideCursorInfo (lines 425-429).
hideCursorInfo(info) ==
    [info EXCEPT !.shape = "", !.deltaXLabel = QString, !.deltaYLabel = QString]

\* Variant of updateCursorInfo that shows the deltas whatever the shape.
updateCursorInfo_AlwaysValues(info, strX, strY, shape) ==
    CASE shape = "NONE" ->
             [info EXCEPT !.shape = "OFF", !.deltaXLabel = strX, !.deltaYLabel = strY]
      [] shape = "HORIZONTAL" ->
             [info EXCEPT !.shape = "=", !.deltaXLabel = strX, !.deltaYLabel = strY]
      [] shape = "VERTICAL" ->
             [info EXCEPT !.shape = "||", !.deltaXLabel = strX, !.deltaYLabel = strY]
      [] shape = "RECTANGULAR" ->
             [info EXCEPT !.shape = "#", !.deltaXLabel = strX, !.deltaYLabel = strY]

\* updateCursorInfo (lines 431-457).
updateCursorInfo(info, strX, strY, shape) ==
    CASE shape = "NONE" ->
             [info EXCEPT !.shape = "OFF", !.deltaXLabel = QString,
                          !.deltaYLabel = QString]
      [] shape = "HORIZONTAL" ->
             [info EXCEPT !.shape = "=", !.deltaXLabel = QString,
                          !.deltaYLabel = strY]
      [] shape = "VERTICAL" ->
             [info EXCEPT !.shape = "||", !.deltaXLabel = strX,
                          !.deltaYLabel = QString]
      [] shape = "RECTANGULAR" ->
             [info EXCEPT !.shape = "#", !.deltaXLabel = strX,
                          !.deltaYLabel = strY]

\* Variant of line 461 without fabs.
divs_Signed(h) == h[1].x - h[0].x

\* Line 461: the distance of the time markers, in hundredths of a division.
divs(h) == Abs(h[1].x - h[0].x)

\* Variant of p1 - p0 that takes the absolute differences.
delta_Absolute(p) == [x |-> Abs(p[1].x - p[0].x), y |-> Abs(p[1].y - p[0].y)]

\* p1 - p0 of lines 491-492 and 505-506: marker 1 minus marker 0 of a
\* channel cursor, per axis.
delta(p) == [x |-> p[1].x - p[0].x, y |-> p[1].y - p[0].y]

\* DsoWidget::updateMarkerDetails: the labels of the time markers and of
\* every channel cursor. Values carry the unit of the positions (a hundredth
\* of a division) times the unit of the scale factor; 1.0 / time of line 480
\* is the fraction 1 / time in the inverse of the unit of `time`.
updateMarkerDetails(w) ==
    LET time == divs(w.cursorInfo[0].position) * timebase
        freq == divs(w.cursorInfo[0].position) * frequencybase
        voltageInfo(channel) ==
            LET d == delta(w.cursorInfo[VoltageCursor(channel)].position)
                info == w.voltageCursors[channel]
            IN  IF w.voltageUsed[channel]
                    THEN updateCursorInfo(
                             [info EXCEPT !.selector = TRUE],
                             valueToString(d.x * timebase, "UNIT_SECONDS"),
                             valueToString(d.y * gain(channel), "UNIT_VOLTS"),
                             w.cursorInfo[VoltageCursor(channel)].shape)
                    ELSE hideCursorInfo([info EXCEPT !.selector = FALSE])
        spectrumInfo(channel) ==
            LET d == delta(w.cursorInfo[SpectrumCursor(channel)].position)
                info == w.spectrumCursors[channel]
            IN  IF w.spectrumUsed[channel]
                    THEN updateCursorInfo(
                             [info EXCEPT !.selector = TRUE],
                             valueToString(d.x * frequencybase, "UNIT_HERTZ"),
                             valueToString(d.y * magnitude(channel) * DIVS_VOLTAGE,
                                           "UNIT_DECIBEL"),
                             w.cursorInfo[SpectrumCursor(channel)].shape)
                    ELSE hideCursorInfo([info EXCEPT !.selector = FALSE])
    IN  [w EXCEPT
            !.markerTimeLabel = valueToString(time, "UNIT_SECONDS"),
            !.markerFrequencyLabel = valueToString(Ratio(1, time), "UNIT_HERTZ"),
            !.markerInfo = [@ EXCEPT !.deltaXLabel = valueToString(time, "UNIT_SECONDS"),
                                     !.deltaYLabel = valueToString(freq, "UNIT_HERTZ")],
            !.voltageCursors = [channel \in Channels |-> voltageInfo(channel)],
            !.spectrumCursors = [channel \in Channels |-> spectrumInfo(channel)]]

\* DsoSettingsScope::getMarker: the x position of a time marker.
getMarker(w, marker) == w.cursorInfo[0].position[marker].x

\* Variant of mainToZoom without the swap of line 764.
mainToZoom_NoSwap(w, position) ==
    LET m1 == getMarker(w, 0)
        m2 == getMarker(w, 1)
        T == Hundredths(DIVS_TIME)
    IN  Ratio(2 * position.num * T - position.den * T - 2 * position.den * m1,
              2 * position.den * (m2 - m1))

\* DsoWidget::mainToZoom; `position` is a fraction of the record, the result
\* a fraction of the zoom window.
mainToZoom(w, position) ==
    LET m1 == Min(getMarker(w, 0), getMarker(w, 1))
        m2 == Max(getMarker(w, 0), getMarker(w, 1))
        T == Hundredths(DIVS_TIME)
    IN  Ratio(2 * position.num * T - position.den * T - 2 * position.den * m1,
              2 * position.den * (m2 - m1))

\* DsoWidget::zoomToMain.
zoomToMain(w, position) ==
    LET m1 == Min(getMarker(w, 0), getMarker(w, 1))
        m2 == Max(getMarker(w, 0), getMarker(w, 1))
        T == Hundredths(DIVS_TIME)
    IN  Ratio(T * position.den + 2 * (m1 * position.den + position.num * (m2 - m1)),
              2 * T * position.den)

RECURSIVE updateTriggerPosition(_, _, _, _)

\* LevelSlider::setValue on the trigger position slider of the main or the
\* zoom view: the slider takes the value and, unless its signals are blocked,
\* emits valueChanged, which runs the slot connected at lines 325-330.
setTriggerPositionValue(w, mainView, value, blocked) ==
    LET set == IF mainView
                   THEN [w EXCEPT !.mainTriggerPositionSlider = value]
                   ELSE [w EXCEPT !.zoomTriggerPositionSlider.value = value]
    IN  IF blocked
            THEN set
            ELSE updateTriggerPosition(
                     [set EXCEPT !.signals = Append(@, <<"triggerPositionSlider", mainView, value>>)],
                     0, value, mainView)

\* Variant of adaptTriggerPositionSlider whose range excludes its bounds.
adaptTriggerPositionSlider_Exclusive(w) ==
    LET value == mainToZoom(w, w.triggerPosition)
        evaluated == [w EXCEPT !.zeroWidth =
                         @ \/ getMarker(w, 0) = getMarker(w, 1)]
    IN  IF Less(minimum, value) /\ Less(value, maximum)
            THEN setTriggerPositionValue(
                     [evaluated EXCEPT !.zoomTriggerPositionSlider.enabled = TRUE],
                     FALSE, value, TRUE)
            ELSE setTriggerPositionValue(
                     [evaluated EXCEPT !.zoomTriggerPositionSlider.enabled = FALSE],
                     FALSE, IF LessEq(value, minimum) THEN minimum ELSE maximum, TRUE)

\* DsoWidget::adaptTriggerPositionSlider.
adaptTriggerPositionSlider(w) ==
    LET value == mainToZoom(w, w.triggerPosition)
        evaluated == [w EXCEPT !.zeroWidth =
                         @ \/ getMarker(w, 0) = getMarker(w, 1)]
    IN  IF LessEq(minimum, value) /\ LessEq(value, maximum)
            THEN setTriggerPositionValue(
                     [evaluated EXCEPT !.zoomTriggerPositionSlider.enabled = TRUE],
                     FALSE, value, TRUE)
            ELSE setTriggerPositionValue(
                     [evaluated EXCEPT !.zoomTriggerPositionSlider.enabled = FALSE],
                     FALSE, IF Less(value, minimum) THEN minimum ELSE maximum, TRUE)

\* DsoWidget::updateTriggerPosition.
updateTriggerPosition(w, index, value, mainView) ==
    IF index # 0
        THEN w
        ELSE LET moved ==
                     IF mainView
                         THEN adaptTriggerPositionSlider(
                                  [w EXCEPT !.triggerPosition = value])
                         ELSE setTriggerPositionValue(
                                  [w EXCEPT !.triggerPosition = zoomToMain(w, value)],
                                  TRUE, zoomToMain(w, value), TRUE)
                 shown == updateMarkerDetails(moved)
             IN  [shown EXCEPT !.signals =
                     Append(@, <<"triggerPositionChanged", shown.triggerPosition>>)]

\* The sliders of a view: those of the main view or of the zoom view.
View(mainView) == IF mainView THEN "main" ELSE "zoom"

\* DsoWidget::adaptTriggerLevelSlider on the sliders of one view: the limits
\* of the channel's trigger level slider follow the channel's offset.
adaptTriggerLevelSlider(w, mainView, channel) ==
    [w EXCEPT !.triggerLevelSlider[View(mainView)][channel] =
        TriggerLevelLimits(@.value, channel, w.offset[channel])]

\* LevelSlider::setValue on an offset slider whose signals are blocked: the
\* slider takes the value and emits nothing.
setOffsetValue(w, mainView, index, value) ==
    [w EXCEPT !.offsetSlider[View(mainView)][index] = value]

\* LevelSlider::setValue on a trigger level slider whose signals are
\* blocked.
setTriggerLevelValue(w, mainView, channel, value) ==
    [w EXCEPT !.triggerLevelSlider[View(mainView)][channel].value = value]

\* Variant of updateOffset that leaves the slider of the zoom view alone.
updateOffset_NoMirror(w, channel, value) ==
    LET stored == IF channel < NumChannels
                      THEN adaptTriggerLevelSlider(
                               adaptTriggerLevelSlider(
                                   [w EXCEPT !.offset[channel] = value], TRUE, channel),
                               FALSE, channel)
                      ELSE [w EXCEPT !.offset[channel] = value]
    IN  [stored EXCEPT !.offsetSlider.main[channel] = value,
                       !.signals = Append(@, <<"offsetChanged", channel, value>>)]

\* DsoWidget::updateOffset.  The model has as many voltage channels as the
\* device has, so every voltage channel has trigger level sliders.
updateOffset(w, channel, value) ==
    LET stored ==
            IF channel < NumChannels
                THEN adaptTriggerLevelSlider(
                         adaptTriggerLevelSlider(
                             [w EXCEPT !.offset[channel] = value], TRUE, channel),
                         FALSE, channel)
                ELSE IF channel < 2 * NumChannels
                         THEN [w EXCEPT !.offset[channel] = value]
                         ELSE w
        main == IF channel < 2 * NumChannels
                   /\ stored.offsetSlider.main[channel] # value
                    THEN setOffsetValue(stored, TRUE, channel, value)
                    ELSE stored
        zoom == IF channel < 2 * NumChannels
                   /\ main.offsetSlider.zoom[channel] # value
                    THEN setOffsetValue(main, FALSE, channel, value)
                    ELSE main
    IN  [zoom EXCEPT !.signals = Append(@, <<"offsetChanged", channel, value>>)]

\* DsoWidget::updateTriggerLevel.
updateTriggerLevel(w, channel, value) ==
    LET stored == [w EXCEPT !.triggerLevel[channel] = value]
        main == IF stored.triggerLevelSlider.main[channel].value # value
                    THEN setTriggerLevelValue(stored, TRUE, channel, value)
                    ELSE stored
        zoom == IF main.triggerLevelSlider.zoom[channel].value # value
                    THEN setTriggerLevelValue(main, FALSE, channel, value)
                    ELSE main
    IN  [zoom EXCEPT !.signals = Append(@, <<"triggerLevelChanged", channel, value>>)]

\* Variant of updateMarker that leaves the zoom slider alone.
updateMarker_NoAdapt(w, marker, value) ==
    updateMarkerDetails([w EXCEPT !.cursorInfo[0].position[marker].x = value])

\* DsoWidget::updateMarker: DsoSettingsScope::setMarker sets the x position
\* of a time marker; then the zoom slider and the labels follow.
updateMarker(w, marker, value) ==
    updateMarkerDetails(
        adaptTriggerPositionSlider(
            [w EXCEPT !.cursorInfo[0].position[marker].x = value]))

\* The slot of markerSlider's valueChanged (dsowidget.cpp, lines 335-338).
markerSliderChanged(w, marker, value) ==
    markerUpdated(updateMarker(w, marker, value))

\* LevelSlider::setValue on the marker slider: the slider takes the value and
\* announces it.
setValue(w, marker, value) ==
    markerSliderChanged(
        [w EXCEPT !.markerSlider[marker] = value,
                  !.signals = Append(@, <<"markerSlider", marker, value>>)],
        marker, value)

\* Variant of the slot that hands the marker slider the x position of the
\* cursor the marker belongs to.
markerMoved_SelectedX(w, cursor, marker) ==
    LET seen == [w EXCEPT !.emitted =
                     Append(w.emitted, [marker |-> marker,
                                        position |-> w.cursorInfo[cursor].position])]
    IN  markerUpdated(setValue(seen, marker, seen.cursorInfo[cursor].position[marker].x))

\* The slot of GlScope::markerMoved (dsowidget.cpp, lines 89-92), run within
\* the emit.
markerMoved(w, cursor, marker) ==
    LET seen == [w EXCEPT !.emitted =
                     Append(w.emitted, [marker |-> marker,
                                        position |-> w.cursorInfo[cursor].position])]
    IN  markerUpdated(setValue(seen, marker, seen.cursorInfo[0].position[marker].x))

\* Variant of the assignment that takes over the x coordinate alone.
SetPosition_XOnly(w, cursor, marker, position) ==
    [w EXCEPT !.cursorInfo[cursor].position[marker].x = position.x]

\* The assignment position[marker] = position of lines 94, 109, 114 and 126.
SetPosition(w, cursor, marker, position) ==
    [w EXCEPT !.cursorInfo[cursor].position[marker] = position]

\* Variant of the loop of lines 108-112 that moves the last marker alone.
MoveAllFrom_LastOnly(w, cursor, marker, position) ==
    markerMoved(SetPosition(w, cursor, MARKER_COUNT - 1, position),
                cursor, MARKER_COUNT - 1)

\* All markers from `marker` on are assigned, without notification.
RECURSIVE SetAllFrom(_, _, _, _)
SetAllFrom(w, cursor, marker, position) ==
    IF marker < MARKER_COUNT
        THEN SetAllFrom(SetPosition(w, cursor, marker, position),
                        cursor, marker + 1, position)
        ELSE w

\* markerMoved is emitted for all markers from `marker` on.
RECURSIVE NotifyAllFrom(_, _, _)
NotifyAllFrom(w, cursor, marker) ==
    IF marker < MARKER_COUNT
        THEN NotifyAllFrom(markerMoved(w, cursor, marker), cursor, marker + 1)
        ELSE w

\* Variant of the loop of lines 108-112 that assigns every marker before it
\* emits the first notification.
MoveAllFrom_SetThenNotify(w, cursor, marker, position) ==
    NotifyAllFrom(SetAllFrom(w, cursor, marker, position), cursor, marker)

\* Lines 108-112: the loop over all markers of an unanchored move.
RECURSIVE MoveAllFrom(_, _, _, _)
MoveAllFrom(w, cursor, marker, position) ==
    IF marker < MARKER_COUNT
        THEN MoveAllFrom(markerMoved(SetPosition(w, cursor, marker, position),
                                     cursor, marker),
                         cursor, marker + 1, position)
        ELSE w

\* ------------------------------------------------------------------------
\* Initial state: both GlScope constructors have run, initializeGL has not.
\* ------------------------------------------------------------------------

HistoryInit ==
    /\ shaderCompileSuccess = FALSE
    /\ m_program = FALSE
    /\ m_GraphHistory = <<>>
    /\ allocated = 0
    /\ delivered = 0
    /\ inserted = 0
    /\ insertCaps = {}
    /\ before = <<>>
    /\ afterTrim = <<>>
    /\ afterGrow = <<>>
    /\ drawn = <<>>
    /\ traces = <<>>
    /\ outlines = <<>>
    /\ usedAtInsert = <<>>
    /\ pmvMatrix = <<0, 0>>
    /\ fault = FALSE

\* A CursorInfo as its constructor leaves it (lines 30-38): the selector
\* enabled, no text.
NewCursorInfo ==
    [selector |-> TRUE, shape |-> "", deltaXLabel |-> QString, deltaYLabel |-> QString]

\* The widget as the DsoWidget constructor leaves it. The time markers are
\* VERTICAL (dsowidget.cpp, line 272); the channel cursors have the shape,
\* the channels the used flags and the trigger the position the settings
\* hold; the sliders show the settings (setupSliders).
Constructed(shape, usedVoltage, usedSpectrum, position) ==
    [cursorInfo |-> [c \in CursorIds |->
                        [shape |-> IF c = 0 THEN "VERTICAL" ELSE shape,
                         position |-> DefaultPosition]],
     vaMarker |-> [c \in CursorIds |-> [k \in 1..4 |-> [x |-> 0, y |-> 0]]],
     m_marker |-> [created |-> FALSE, written |-> FALSE],
     markerSlider |-> [m \in Markers |-> DefaultPosition[m].x],
     emitted |-> <<>>,
     voltageUsed |-> usedVoltage,
     spectrumUsed |-> usedSpectrum,
     markerInfo |-> NewCursorInfo,
     voltageCursors |-> [channel \in Channels |-> NewCursorInfo],
     spectrumCursors |-> [channel \in Channels |-> NewCursorInfo],
     markerTimeLabel |-> QString,
     markerFrequencyLabel |-> QString,
     triggerPosition |-> position,
     mainTriggerPositionSlider |-> position,
     zoomTriggerPositionSlider |-> [enabled |-> TRUE, value |-> position],
     offset |-> [index \in OffsetIndexes |-> 0],
     triggerLevel |-> [channel \in Channels |-> 0],
     offsetSlider |-> [main |-> [index \in OffsetIndexes |-> 0],
                       zoom |-> [index \in OffsetIndexes |-> 0]],
     triggerLevelSlider |->
         [main |-> [channel \in Channels |-> TriggerLevelLimits(0, channel, 0)],
          zoom |-> [channel \in Channels |-> TriggerLevelLimits(0, channel, 0)]],
     signals |-> <<>>,
     zeroWidth |-> FALSE]

\* DsoWidget::showEvent (lines 718-730): the labels and the zoom slider are
\* brought up to date.
showEvent(w) == adaptTriggerPositionSlider(updateMarkerDetails(w))

\* The state is the world `w`, no pointer event handled yet.
Start(w) ==
    /\ cursorInfo = w.cursorInfo
    /\ vaMarker = w.vaMarker
    /\ m_marker = w.m_marker
    /\ markerSlider = w.markerSlider
    /\ emitted = w.emitted
    /\ voltageUsed = w.voltageUsed
    /\ spectrumUsed = w.spectrumUsed
    /\ markerInfo = w.markerInfo
    /\ voltageCursors = w.voltageCursors
    /\ spectrumCursors = w.spectrumCursors
    /\ markerTimeLabel = w.markerTimeLabel
    /\ markerFrequencyLabel = w.markerFrequencyLabel
    /\ triggerPosition = w.triggerPosition
    /\ mainTriggerPositionSlider = w.mainTriggerPositionSlider
    /\ zoomTriggerPositionSlider = w.zoomTriggerPositionSlider
    /\ offset = w.offset
    /\ triggerLevel = w.triggerLevel
    /\ offsetSlider = w.offsetSlider
    /\ triggerLevelSlider = w.triggerLevelSlider
    /\ signals = w.signals
    /\ zeroWidth = w.zeroWidth
    /\ selectedMarker = NO_MARKER
    /\ drag = 0
    /\ pointer = [x |-> 0, y |-> 0]

AllChannels(flag) == [channel \in Channels |-> flag]

Init ==
    /\ HistoryInit
    /\ phosphorDraws \in 0..MaxCapacity
    /\ \E shape \in CursorShapes :
           Start(Constructed(shape, AllChannels(TRUE), AllChannels(TRUE), minimum))
    /\ selectedCursor = 0
    /\ lastOp = "construct"

\* The state in which pointer events arrive: the widget is shown, and the
\* user may have picked any cursor with the selector buttons, which changes
\* selectedCursor alone.
PointerInit ==
    /\ HistoryInit
    /\ phosphorDraws = 1
    /\ \E shape \in CursorShapes :
           Start(showEvent(Constructed(shape, AllChannels(TRUE), AllChannels(TRUE),
                                       minimum)))
    /\ selectedCursor \in CursorIds
    /\ lastOp = "construct"

\* ------------------------------------------------------------------------
\* Handlers
\* ------------------------------------------------------------------------

\* The view settings change the digital phosphor depth (configuration dialog).
setDigitalPhosphorDraws(n) ==
    /\ ~fault
    /\ n # phosphorDraws
    /\ phosphorDraws' = n
    /\ lastOp' = "setDigitalPhosphorDraws"
    /\ UNCHANGED <<shaderCompileSuccess, m_program, m_GraphHistory, allocated,
                   delivered, inserted, insertCaps, before, afterTrim, afterGrow,
                   drawn, traces, outlines, usedAtInsert, pmvMatrix, fault>>
    /\ UNCHANGED <<pointerVars, widgetVars>>

\* GlScope::initializeGL; `ok` is whether GLSL is supported and the shaders
\* compile, link and expose their variables.
initializeGL(ok) ==
    /\ ~fault
    /\ lastOp' = "initializeGL"
    /\ IF m_program \/ ~ok
          THEN UNCHANGED <<shaderCompileSuccess, m_program>>
          ELSE /\ m_program' = TRUE
               /\ shaderCompileSuccess' = TRUE
    /\ vaMarker' = IF m_program \/ ~ok THEN vaMarker
                                       ELSE markerUpdated(World).vaMarker
    /\ m_marker' = IF m_program \/ ~ok
                       THEN m_marker
                       ELSE markerUpdated([World EXCEPT !.m_marker.created = TRUE]).m_marker
    /\ UNCHANGED <<phosphorDraws, m_GraphHistory, allocated, delivered, inserted,
                   insertCaps, before, afterTrim, afterGrow, drawn, traces,
                   outlines, usedAtInsert, pmvMatrix, fault>>
    /\ UNCHANGED <<cursorInfo, selectedCursor, selectedMarker, markerSlider,
                   emitted, drag, pointer>>
    /\ UNCHANGED widgetVars

\* GlScope::showData.
showData ==
    /\ ~fault
    /\ delivered < MaxFrames
    /\ delivered' = delivered + 1
    /\ lastOp' = "showData"
    /\ IF ~shaderCompileSuccess
          THEN UNCHANGED <<m_GraphHistory, allocated, inserted, insertCaps,
                           before, afterTrim, afterGrow, usedAtInsert, fault>>
          ELSE LET trimmed == RemoveTooMuch(m_GraphHistory, phosphorDraws)
                   grown == AddIfMissing(trimmed, phosphorDraws, allocated)
               IN  /\ inserted' = inserted + 1
                   /\ usedAtInsert' =
                          [f \in DOMAIN usedAtInsert \cup {delivered'} |->
                              IF f = delivered'
                                  THEN [voltage |-> voltageUsed, spectrum |-> spectrumUsed]
                                  ELSE usedAtInsert[f]]
                   /\ before' = m_GraphHistory
                   /\ insertCaps' = insertCaps \cup {phosphorDraws}
                   /\ afterTrim' = trimmed
                   /\ afterGrow' = grown
                   /\ allocated' = allocated + (Len(grown) - Len(trimmed))
                   /\ IF Len(grown) > 0
                         THEN /\ m_GraphHistory' =
                                     WriteFront(MoveLastToFront(grown), delivered')
                              /\ fault' = FALSE
                         ELSE \* std::prev(end()) and front() of an empty list:
                              \* undefined behaviour. The write lands outside
                              \* the list; the list is seen unchanged or with
                              \* the written storage as an element.
                              /\ fault' = TRUE
                              /\ \/ m_GraphHistory' = grown
                                 \/ m_GraphHistory' =
                                        <<[slot |-> NO_SLOT, frame |-> delivered']>>
    /\ UNCHANGED <<shaderCompileSuccess, m_program, phosphorDraws, drawn, traces,
                   outlines, pmvMatrix>>
    /\ UNCHANGED <<pointerVars, widgetVars>>

\* scope->horizontal.format: voltage over time, or one channel over another.
GraphFormats == {"TY", "XY"}

\* Variant of the factor that darkens the newest frame most.
darkerFactor_NewestDarkest(historyIndex) == 100 + 10 * (MaxCapacity - historyIndex)

\* Lines 538 and 549: the argument of QColor::darker for a frame.
darkerFactor(historyIndex) == 100 + 10 * historyIndex

\* QColor::darker(factor) on a channel colour of full intensity: the value
\* component (255) is divided by factor / 100.
darker(factor) == (255 * 100) \div factor

\* Variant of drawVoltageChannelGraph that tests the used flag the channel
\* had when the frame was written.
drawVoltageChannelGraph_AtInsert(channel, graph, historyIndex) ==
    IF ~usedAtInsert[graph.frame].voltage[channel]
        THEN <<>>
        ELSE <<[kind |-> "voltage", channel |-> channel, frame |-> graph.frame,
                historyIndex |-> historyIndex, factor |-> darkerFactor(historyIndex)]>>

\* GlScope::drawVoltageChannelGraph: the draw calls it issues.
drawVoltageChannelGraph(channel, graph, historyIndex) ==
    IF ~voltageUsed[channel]
        THEN <<>>
        ELSE <<[kind |-> "voltage", channel |-> channel, frame |-> graph.frame,
                historyIndex |-> historyIndex, factor |-> darkerFactor(historyIndex)]>>

\* GlScope::drawSpectrumChannelGraph.
drawSpectrumChannelGraph(channel, graph, historyIndex) ==
    IF ~spectrumUsed[channel]
        THEN <<>>
        ELSE <<[kind |-> "spectrum", channel |-> channel, frame |-> graph.frame,
                historyIndex |-> historyIndex, factor |-> darkerFactor(historyIndex)]>>

\* Lines 346-353: the channel loop for one graph, from `channel` on.
RECURSIVE DrawChannelsFrom(_, _, _, _)
DrawChannelsFrom(channel, graph, historyIndex, format) ==
    IF channel < NumChannels
        THEN (IF format = "TY"
                  THEN drawSpectrumChannelGraph(channel, graph, historyIndex)
                  ELSE <<>>)
             \o drawVoltageChannelGraph(channel, graph, historyIndex)
             \o DrawChannelsFrom(channel + 1, graph, historyIndex, format)
        ELSE <<>>

\* Lines 344-354: the loop over m_GraphHistory, historyIndex counting from 0;
\* k is the place in the list of the graph historyIndex k - 1 belongs to.
RECURSIVE DrawHistoryFrom(_, _, _)
DrawHistoryFrom(h, k, format) ==
    IF k <= Len(h)
        THEN DrawChannelsFrom(0, h[k], k - 1, format) \o DrawHistoryFrom(h, k + 1, format)
        ELSE <<>>

\* Variant of the channel loops that draws the outline of every cursor.
RECURSIVE DrawChannelMarkersFrom_Unconditional(_)
DrawChannelMarkersFrom_Unconditional(marker) ==
    IF marker < NumCursors
        THEN <<[cursor |-> marker,
                lineWidth |-> IF marker = selectedCursor THEN 3 ELSE 1]>>
             \o DrawChannelMarkersFrom_Unconditional(marker + 1)
        ELSE <<>>

\* The channel loops of drawMarkers (lines 513-529) from cursor `marker` on:
\* the outline of a channel's cursor is drawn if the channel is used.
RECURSIVE DrawChannelMarkersFrom(_)
DrawChannelMarkersFrom(marker) ==
    IF marker < NumCursors
        THEN (IF (IF marker <= NumChannels THEN voltageUsed[marker - 1]
                                           ELSE spectrumUsed[marker - 1 - NumChannels])
                  THEN <<[cursor |-> marker,
                          lineWidth |-> IF marker = selectedCursor THEN 3 ELSE 1]>>
                  ELSE <<>>)
             \o DrawChannelMarkersFrom(marker + 1)
        ELSE <<>>

\* GlScope::drawMarkers: the outline of the time markers, then those of the
\* channels.
drawMarkers ==
    <<[cursor |-> 0, lineWidth |-> IF 0 = selectedCursor THEN 3 ELSE 1]>>
        \o DrawChannelMarkersFrom(1)

\* GlScope::paintGL of the main view or the zoomed view: one pass over
\* m_GraphHistory, historyIndex counting up, then the markers in the main
\* view. The zoom matrix of lines 338-343 changes no state kept here.
paintGL(zoomed, format) ==
    /\ ~fault
    /\ lastOp' = IF zoomed THEN "zoomScope.paintGL" ELSE "paintGL"
    /\ IF ~shaderCompileSuccess
          THEN UNCHANGED <<drawn, traces, outlines>>
          ELSE /\ drawn' = [k \in 1..Len(m_GraphHistory) |-> m_GraphHistory[k].frame]
               /\ traces' = DrawHistoryFrom(m_GraphHistory, 1, format)
               /\ outlines' = IF ~zoomed THEN drawMarkers ELSE <<>>
    /\ UNCHANGED <<shaderCompileSuccess, m_program, phosphorDraws, m_GraphHistory,
                   allocated, delivered, inserted, insertCaps, before, afterTrim,
                   afterGrow, usedAtInsert, pmvMatrix, fault>>
    /\ UNCHANGED <<pointerVars, widgetVars>>

\* The projection resizeGL leaves for a widget of the given size.
Resized(newWidth, newHeight) ==
    IF ~shaderCompileSuccess THEN pmvMatrix ELSE <<newWidth, newHeight>>

\* GlScope::resizeGL.
resizeGL(newWidth, newHeight) ==
    /\ ~fault
    /\ lastOp' = "resizeGL"
    /\ pmvMatrix' = Resized(newWidth, newHeight)
    /\ UNCHANGED <<shaderCompileSuccess, m_program, phosphorDraws, m_GraphHistory,
                   allocated, delivered, inserted, insertCaps, before, afterTrim,
                   afterGrow, drawn, traces, outlines, usedAtInsert, fault>>
    /\ UNCHANGED <<pointerVars, widgetVars>>

HistoryNext ==
    \/ \E n \in 0..MaxCapacity : setDigitalPhosphorDraws(n)
    \/ \E ok \in BOOLEAN : initializeGL(ok)
    \/ showData
    \/ paintGL(FALSE, "TY")

HistorySpec == Init /\ [][HistoryNext]_vars

\* Variant of the test of lines 72, 102 and 122 that forgets the view.
Accepts_AnyView(zoomed, leftButton) == leftButton

\* Variant of the test that forgets the button.
Accepts_AnyButton(zoomed, leftButton) == ~zoomed

\* Lines 72, 102 and 122: a pointer event is handled in the main view only
\* (zoomed is false), and only for the left button.
Accepts(zoomed, leftButton) == ~zoomed /\ leftButton

\* The name a pointer handler of the main or of the zoomed view goes by.
HandlerOf(zoomed, handler) ==
    IF zoomed THEN "zoomScope." \o handler ELSE handler

\* The state a handler leaves: `w` is its world at return.
Leave(w) ==
    /\ cursorInfo' = w.cursorInfo
    /\ vaMarker' = w.vaMarker
    /\ m_marker' = w.m_marker
    /\ markerSlider' = w.markerSlider
    /\ emitted' = w.emitted
    /\ voltageUsed' = w.voltageUsed
    /\ spectrumUsed' = w.spectrumUsed
    /\ markerInfo' = w.markerInfo
    /\ voltageCursors' = w.voltageCursors
    /\ spectrumCursors' = w.spectrumCursors
    /\ markerTimeLabel' = w.markerTimeLabel
    /\ markerFrequencyLabel' = w.markerFrequencyLabel
    /\ triggerPosition' = w.triggerPosition
    /\ mainTriggerPositionSlider' = w.mainTriggerPositionSlider
    /\ zoomTriggerPositionSlider' = w.zoomTriggerPositionSlider
    /\ offset' = w.offset
    /\ triggerLevel' = w.triggerLevel
    /\ offsetSlider' = w.offsetSlider
    /\ triggerLevelSlider' = w.triggerLevelSlider
    /\ signals' = w.signals
    /\ zeroWidth' = w.zeroWidth

\* GlScope::mousePressEvent of the view with the given `zoomed` flag.
mousePressEvent(zoomed, button, ex, ey) ==
    /\ ~fault
    /\ lastOp' = HandlerOf(zoomed, "mousePressEvent")
    /\ IF Accepts(zoomed, button = "LeftButton")
          THEN LET position == EventPosition(ex, ey)
                   marker == CaptureNearest(cursorInfo[selectedCursor], position)
                   moved == SetPosition(World, selectedCursor, marker, position)
               IN  /\ selectedMarker' = marker
                   /\ pointer' = position
                   /\ drag' = IF marker = NO_MARKER THEN 1 ELSE 0
                   /\ IF marker # NO_MARKER
                         THEN IF selectedCursor = 0
                                 THEN Leave(markerMoved(moved, selectedCursor, marker))
                                 ELSE Leave(moved)
                         ELSE Leave(World)
          ELSE /\ Leave(World)
               /\ drag' = 0
               /\ UNCHANGED <<selectedMarker, pointer>>
    /\ UNCHANGED selectedCursor
    /\ UNCHANGED historyVars

\* GlScope::mouseMoveEvent; `left` is whether buttons() holds the left button.
mouseMoveEvent(zoomed, left, ex, ey) ==
    /\ ~fault
    /\ lastOp' = HandlerOf(zoomed, "mouseMoveEvent")
    /\ IF Accepts(zoomed, left)
          THEN LET position == EventPosition(ex, ey)
               IN  /\ drag' = IF drag \in {1, 2} THEN drag + 1 ELSE 0
                   /\ pointer' = position
                   /\ IF selectedMarker = NO_MARKER
                         THEN /\ Leave(MoveAllFrom(World, selectedCursor, 0, position))
                              /\ selectedMarker' = MARKER_COUNT - 1
                         ELSE IF selectedMarker < MARKER_COUNT
                                 THEN /\ Leave(markerMoved(
                                             SetPosition(World, selectedCursor,
                                                         selectedMarker, position),
                                             selectedCursor, selectedMarker))
                                      /\ UNCHANGED selectedMarker
                                 ELSE /\ Leave(World)
                                      /\ UNCHANGED selectedMarker
          ELSE /\ Leave(World)
               /\ drag' = 0
               /\ UNCHANGED <<selectedMarker, pointer>>
    /\ UNCHANGED selectedCursor
    /\ UNCHANGED historyVars

\* Variant of GlScope::mouseReleaseEvent without line 129: the marker stays
\* anchored after the release.
mouseReleaseEvent_KeepsAnchor(zoomed, button, ex, ey) ==
    /\ ~fault
    /\ lastOp' = HandlerOf(zoomed, "mouseReleaseEvent")
    /\ drag' = 0
    /\ IF Accepts(zoomed, button = "LeftButton")
          THEN LET position == EventPosition(ex, ey)
               IN  /\ IF selectedMarker < MARKER_COUNT
                         THEN Leave(markerMoved(
                                  SetPosition(World, selectedCursor, selectedMarker,
                                              position),
                                  selectedCursor, selectedMarker))
                         ELSE Leave(World)
                   /\ pointer' = position
                   /\ UNCHANGED selectedMarker
          ELSE /\ Leave(World)
               /\ UNCHANGED <<selectedMarker, pointer>>
    /\ UNCHANGED selectedCursor
    /\ UNCHANGED historyVars

\* GlScope::mouseReleaseEvent.
mouseReleaseEvent(zoomed, button, ex, ey) ==
    /\ ~fault
    /\ lastOp' = HandlerOf(zoomed, "mouseReleaseEvent")
    /\ drag' = 0
    /\ IF Accepts(zoomed, button = "LeftButton")
          THEN LET position == EventPosition(ex, ey)
               IN  /\ IF selectedMarker < MARKER_COUNT
                         THEN Leave(markerMoved(
                                  SetPosition(World, selectedCursor, selectedMarker,
                                              position),
                                  selectedCursor, selectedMarker))
                         ELSE Leave(World)
                   /\ selectedMarker' = NO_MARKER
                   /\ pointer' = position
          ELSE /\ Leave(World)
               /\ UNCHANGED <<selectedMarker, pointer>>
    /\ UNCHANGED selectedCursor
    /\ UNCHANGED historyVars

\* The pixel of the events of the zoomed view and of the events without
\* the left button.
IgnoredPixels == {<<430, 493>>}

PointerNext ==
    \/ \E px \in PointerPixels :
           \/ mousePressEvent(FALSE, "LeftButton", px[1], px[2])
           \/ mouseMoveEvent(FALSE, TRUE, px[1], px[2])
           \/ mouseReleaseEvent(FALSE, "LeftButton", px[1], px[2])
    \/ \E zoomed \in BOOLEAN, px \in IgnoredPixels :
           \/ \E button \in Buttons :
                  /\ zoomed \/ button # "LeftButton"
                  /\ mousePressEvent(zoomed, button, px[1], px[2])
           \/ \E left \in BOOLEAN :
                  /\ zoomed \/ ~left
                  /\ mouseMoveEvent(zoomed, left, px[1], px[2])
           \/ \E button \in Buttons :
                  /\ zoomed \/ button # "LeftButton"
                  /\ mouseReleaseEvent(zoomed, button, px[1], px[2])

PointerSpec == PointerInit /\ [][PointerNext]_vars

\* The selector button of cursor `index` is enabled.
SelectorEnabled(index) ==
    IF index = 0 THEN markerInfo.selector
    ELSE IF index <= NumChannels THEN voltageCursors[index - 1].selector
    ELSE spectrumCursors[index - 1 - NumChannels].selector

\* GlScope::cursorSelected(index): the index selectedCursor takes.
cursorSelected(index) == index

\* Variant of the slot that counts the selector buttons from one.
cursorSelectorPressed_FromOne(index) ==
    /\ ~fault
    /\ SelectorEnabled(index)
    /\ selectedCursor' = cursorSelected(index + 1)
    /\ lastOp' = "cursorSelected"
    /\ UNCHANGED <<cursorInfo, selectedMarker, vaMarker, m_marker, markerSlider,
                   emitted, drag, pointer>>
    /\ UNCHANGED <<historyVars, widgetVars>>

\* An enabled selector button of the exclusive button group is pressed; the
\* buttons have the ids 0..NumCursors - 1 (dsowidget.cpp, lines 193-243),
\* and the slot of buttonPressed (lines 268-270) hands the id to
\* GlScope::cursorSelected of the main view.
cursorSelectorPressed(index) ==
    /\ ~fault
    /\ SelectorEnabled(index)
    /\ selectedCursor' = cursorSelected(index)
    /\ lastOp' = "cursorSelected"
    /\ UNCHANGED <<cursorInfo, selectedMarker, vaMarker, m_marker, markerSlider,
                   emitted, drag, pointer>>
    /\ UNCHANGED <<historyVars, widgetVars>>

\* Pixels of the pointer events between selection changes: inside the snap
\* area of the default marker 0, and far from every marker.
SelectionPixels == {<<409, 493>>, <<500, 400>>}

\* The widget is shown; every channel is used.
SelectionInit ==
    /\ HistoryInit
    /\ phosphorDraws = 1
    /\ \E shape \in CursorShapes :
           Start(showEvent(Constructed(shape, AllChannels(TRUE), AllChannels(TRUE),
                                       minimum)))
    /\ selectedCursor = 0
    /\ lastOp = "construct"

SelectionNext ==
    \/ \E index \in CursorIds : cursorSelectorPressed(index)
    \/ \E px \in SelectionPixels :
           \/ mousePressEvent(FALSE, "LeftButton", px[1], px[2])
           \/ mouseReleaseEvent(FALSE, "LeftButton", px[1], px[2])

SelectionSpec == SelectionInit /\ [][SelectionNext]_vars

\* What a handler of the widget leaves alone in the views.
ViewsUnchanged ==
    /\ UNCHANGED <<selectedCursor, selectedMarker, drag, pointer>>
    /\ UNCHANGED historyVars

\* The user moves a marker slider of the main view: the slider takes the
\* value and emits valueChanged (slot at lines 335-338).
moveMarkerSlider(marker, value) ==
    /\ ~fault
    /\ Leave(setValue(World, marker, value))
    /\ lastOp' = "markerSlider"
    /\ ViewsUnchanged

\* The user moves the trigger position slider of the main view or, while it
\* is enabled, of the zoom view (slots at lines 325-330).
moveTriggerPositionSlider(mainView, value) ==
    /\ ~fault
    /\ mainView \/ zoomTriggerPositionSlider.enabled
    /\ Leave(setTriggerPositionValue(World, mainView, value, FALSE))
    /\ lastOp' = IF mainView THEN "mainTriggerPositionSlider"
                             ELSE "zoomTriggerPositionSlider"
    /\ ViewsUnchanged

\* The user moves an offset slider of the main or of the zoom view: the
\* slider takes the value and emits valueChanged (slots at lines 322-323).
moveOffsetSlider(mainView, index, value) ==
    /\ ~fault
    /\ Leave(updateOffset(
                 [setOffsetValue(World, mainView, index, value) EXCEPT
                     !.signals = Append(@, <<"offsetSlider", mainView, index, value>>)],
                 index, value))
    /\ lastOp' = "offsetSlider"
    /\ ViewsUnchanged

\* The user moves a trigger level slider of the main or of the zoom view,
\* within the slider's limits (slots at lines 332-333).
moveTriggerLevelSlider(mainView, channel, value) ==
    /\ ~fault
    /\ triggerLevelSlider[View(mainView)][channel].minimum <= value
    /\ value <= triggerLevelSlider[View(mainView)][channel].maximum
    /\ Leave(updateTriggerLevel(
                 [setTriggerLevelValue(World, mainView, channel, value) EXCEPT
                     !.signals = Append(@, <<"triggerLevelSlider", mainView, channel, value>>)],
                 channel, value))
    /\ lastOp' = "triggerLevelSlider"
    /\ ViewsUnchanged

\* The slot of the trigger position sliders' valueChanged (lines 325-330)
\* run for a slider index other than the first.
triggerPositionSliderChanged(mainView, index, value) ==
    /\ ~fault
    /\ index # 0
    /\ Leave(updateTriggerPosition(World, index, value, mainView))
    /\ lastOp' = "triggerPositionSliderChanged"
    /\ ViewsUnchanged

\* Values the user gives an offset slider, in hundredths of a division, and
\* a trigger level slider, in millivolts.
OffsetValues == {-200, 0, 200}

TriggerLevels == {-1000, 0, 1000}

\* Values the user gives a marker slider, in hundredths of a division, and
\* a trigger position slider.
MarkerValues == {-100, 0, 100}

TriggerPositions == {minimum, [num |-> 1, den |-> 2], maximum}

\* Pixels of the pointer events on the time cursor: at the centre, and on
\* the default marker 1.
ZoomPixels == {<<500, 400>>, <<600, 400>>}

\* The widget is shown, the time cursor selected.
ZoomInit ==
    /\ HistoryInit
    /\ phosphorDraws = 1
    /\ \E position \in TriggerPositions :
           Start(showEvent(Constructed("RECTANGULAR", AllChannels(TRUE),
                                       AllChannels(TRUE), position)))
    /\ selectedCursor = 0
    /\ lastOp = "construct"

ZoomNext ==
    \/ \E marker \in Markers, value \in MarkerValues : moveMarkerSlider(marker, value)
    \/ \E mainView \in BOOLEAN, value \in TriggerPositions :
           moveTriggerPositionSlider(mainView, value)
    \/ \E px \in ZoomPixels :
           \/ mousePressEvent(FALSE, "LeftButton", px[1], px[2])
           \/ mouseMoveEvent(FALSE, TRUE, px[1], px[2])
           \/ mouseReleaseEvent(FALSE, "LeftButton", px[1], px[2])

ZoomSpec == ZoomInit /\ [][ZoomNext]_vars

\* Variant of the toggle that steps through the four shapes.
toggleShape_Cycle(shape) ==
    CASE shape = "NONE" -> "RECTANGULAR"
      [] shape = "RECTANGULAR" -> "VERTICAL"
      [] shape = "VERTICAL" -> "HORIZONTAL"
      [] shape = "HORIZONTAL" -> "NONE"

\* Lines 222-227 and 251-256: the shape a click on the shape button stores.
toggleShape(shape) == IF shape = "NONE" THEN "RECTANGULAR" ELSE "NONE"

\* Variant of the slot of the voltage shape button without the test of
\* line 221.
voltageShapeClicked_Unconditional(channel) ==
    /\ ~fault
    /\ LET c == VoltageCursor(channel)
           toggled == [World EXCEPT !.cursorInfo[c].shape = toggleShape(@)]
       IN  Leave(markerUpdated(updateMarkerDetails(toggled)))
    /\ lastOp' = "voltageShapeClicked"
    /\ ViewsUnchanged

\* The shape button of a voltage channel's cursor is clicked (lines 220-231).
voltageShapeClicked(channel) ==
    /\ ~fault
    /\ LET c == VoltageCursor(channel)
           toggled ==
               IF voltageUsed[channel]
                   THEN [World EXCEPT !.cursorInfo[c].shape = toggleShape(@)]
                   ELSE World
       IN  Leave(markerUpdated(updateMarkerDetails(toggled)))
    /\ lastOp' = "voltageShapeClicked"
    /\ ViewsUnchanged

\* The shape button of a spectrum channel's cursor is clicked (lines 249-260).
spectrumShapeClicked(channel) ==
    /\ ~fault
    /\ LET c == SpectrumCursor(channel)
           toggled ==
               IF spectrumUsed[channel]
                   THEN [World EXCEPT !.cursorInfo[c].shape = toggleShape(@)]
                   ELSE World
       IN  Leave(markerUpdated(updateMarkerDetails(toggled)))
    /\ lastOp' = "spectrumShapeClicked"
    /\ ViewsUnchanged

\* DsoWidget::updateVoltageUsed, run when the voltage dock has written the
\* used flag of the channel to the settings.
updateVoltageUsed(channel, used) ==
    /\ ~fault
    /\ Leave(updateMarkerDetails([World EXCEPT !.voltageUsed[channel] = used]))
    /\ lastOp' = "updateVoltageUsed"
    /\ ViewsUnchanged

\* DsoWidget::updateSpectrumUsed, run when the spectrum dock has written the
\* used flag of the channel to the settings; it updates the offset sliders
\* and the magnitude label only.
updateSpectrumUsed(channel, used) ==
    /\ ~fault
    /\ Leave([World EXCEPT !.spectrumUsed[channel] = used])
    /\ lastOp' = "updateSpectrumUsed"
    /\ ViewsUnchanged

\* The widget is shown; the channel cursors have any shape, any cursor is
\* selected.
MeasureInit ==
    /\ HistoryInit
    /\ phosphorDraws = 1
    /\ \E shape \in CursorShapes :
           Start(showEvent(Constructed(shape, AllChannels(TRUE), AllChannels(TRUE),
                                       minimum)))
    /\ selectedCursor \in CursorIds
    /\ lastOp = "construct"

\* Pixels of the pointer events on the measured cursor: (0, 0) and (2, 1)
\* in divisions.
MeasurePixels == {<<500, 400>>, <<700, 300>>}

MeasureNext ==
    \/ \E channel \in Channels : voltageShapeClicked(channel)
    \/ \E channel \in Channels : spectrumShapeClicked(channel)
    \/ \E channel \in Channels, used \in BOOLEAN : updateVoltageUsed(channel, used)
    \/ \E channel \in Channels, used \in BOOLEAN : updateSpectrumUsed(channel, used)
    \/ \E px \in MeasurePixels :
           \/ mouseMoveEvent(FALSE, TRUE, px[1], px[2])
           \/ mouseReleaseEvent(FALSE, "LeftButton", px[1], px[2])

MeasureSpec == MeasureInit /\ [][MeasureNext]_vars

\* Marker positions around the centre of the grid, in hundredths of a
\* division: at it, inside the snap radius, on its border and far away.
HitPositions ==
    {[x |-> x, y |-> y] : x \in {-9, 0, 5, 10, 300}, y \in {-4, 0, 5, 8, 300}}

\* The pixel of the pointer-down: the centre of the grid.
HitPixels == {<<500, 400>>}

\* Pixels of the moves and releases of a drag: the centre, and a position
\* right of and above the widget, reported while the button is held.
DragPixels == {<<500, 400>>, <<1100, -50>>}

\* The widget is shown and drawn, the cursor of voltage channel 0 selected;
\* earlier drags have left its markers anywhere.
HitInit ==
    /\ HistoryInit
    /\ phosphorDraws = 1
    /\ \E shape \in CursorShapes, p0 \in HitPositions, p1 \in HitPositions :
           Start(markerUpdated(showEvent(
               [Constructed(shape, AllChannels(TRUE), AllChannels(TRUE), minimum)
                   EXCEPT !.cursorInfo[VoltageCursor(0)].position =
                              [m \in Markers |-> IF m = 0 THEN p0 ELSE p1]])))
    /\ selectedCursor = VoltageCursor(0)
    /\ lastOp = "construct"

HitNext ==
    \/ \E px \in HitPixels : mousePressEvent(FALSE, "LeftButton", px[1], px[2])
    \/ \E px \in DragPixels :
           \/ mouseMoveEvent(FALSE, TRUE, px[1], px[2])
           \/ mouseReleaseEvent(FALSE, "LeftButton", px[1], px[2])

HitSpec == HitInit /\ [][HitNext]_vars

\* Number of sample frames delivered while the used flags change.
MaxTraceFrames == 3

\* The main view is shown with two frames retained; frames arrive, the view
\* is drawn in either format, and the used flags of the channels change.
TraceInit ==
    /\ HistoryInit
    /\ phosphorDraws = 2
    /\ Start(showEvent(Constructed("RECTANGULAR", AllChannels(TRUE), AllChannels(TRUE),
                                   minimum)))
    /\ selectedCursor = 0
    /\ lastOp = "construct"

TraceNext ==
    \/ initializeGL(TRUE)
    \/ delivered < MaxTraceFrames /\ showData
    \/ \E format \in GraphFormats : paintGL(FALSE, format)
    \/ \E channel \in Channels, used \in BOOLEAN : updateVoltageUsed(channel, used)
    \/ \E channel \in Channels, used \in BOOLEAN : updateSpectrumUsed(channel, used)

TraceSpec == TraceInit /\ [][TraceNext]_vars

\* The pixel of the drags on the cursor of a channel that is not used.
UnusedPixels == {<<700, 300>>}

\* The shape buttons, the used flags, drags and draws of the main view.
UnusedNext ==
    \/ initializeGL(TRUE)
    \/ paintGL(FALSE, "TY")
    \/ \E channel \in Channels : voltageShapeClicked(channel)
    \/ \E channel \in Channels : spectrumShapeClicked(channel)
    \/ \E channel \in Channels, used \in BOOLEAN : updateVoltageUsed(channel, used)
    \/ \E channel \in Channels, used \in BOOLEAN : updateSpectrumUsed(channel, used)
    \/ \E px \in UnusedPixels :
           \/ mouseMoveEvent(FALSE, TRUE, px[1], px[2])
           \/ mouseReleaseEvent(FALSE, "LeftButton", px[1], px[2])

UnusedSpec == MeasureInit /\ [][UnusedNext]_vars

\* The widget is shown with Rectangular channel cursors, the time markers
\* selected.
IndexInit ==
    /\ HistoryInit
    /\ phosphorDraws = 1
    /\ Start(showEvent(Constructed("RECTANGULAR", AllChannels(TRUE), AllChannels(TRUE),
                                   minimum)))
    /\ selectedCursor = 0
    /\ lastOp = "construct"

\* The selector buttons, the used flags, drags and draws of the main view.
IndexNext ==
    \/ initializeGL(TRUE)
    \/ paintGL(FALSE, "TY")
    \/ \E index \in CursorIds : cursorSelectorPressed(index)
    \/ \E channel \in Channels, used \in BOOLEAN : updateVoltageUsed(channel, used)
    \/ \E channel \in Channels, used \in BOOLEAN : updateSpectrumUsed(channel, used)
    \/ \E px \in UnusedPixels :
           \/ mousePressEvent(FALSE, "LeftButton", px[1], px[2])
           \/ mouseMoveEvent(FALSE, TRUE, px[1], px[2])
           \/ mouseReleaseEvent(FALSE, "LeftButton", px[1], px[2])

IndexSpec == IndexInit /\ [][IndexNext]_vars

\* The sliders of both views and a drag of a time marker in the main view.
MirrorNext ==
    \/ \E mainView \in BOOLEAN, index \in OffsetIndexes, value \in OffsetValues :
           moveOffsetSlider(mainView, index, value)
    \/ \E mainView \in BOOLEAN, channel \in Channels, value \in TriggerLevels :
           moveTriggerLevelSlider(mainView, channel, value)
    \/ \E mainView \in BOOLEAN, value \in TriggerPositions :
           moveTriggerPositionSlider(mainView, value)
    \/ \E px \in UnusedPixels :
           \/ mouseMoveEvent(FALSE, TRUE, px[1], px[2])
           \/ mouseReleaseEvent(FALSE, "LeftButton", px[1], px[2])

MirrorSpec == IndexInit /\ [][MirrorNext]_vars

\* Pixels of the drags of a time marker: inside the widget and, with the
\* button held, right of it.
RangePixels == {<<600, 400>>, <<1100, 400>>}

\* Slider indexes other than the first.
OtherIndexes == {1, 2}

\* The marker sliders, the trigger position sliders of both views and drags
\* of a time marker in the main view.
RangeNext ==
    \/ \E marker \in Markers, value \in MarkerValues : moveMarkerSlider(marker, value)
    \/ \E mainView \in BOOLEAN, value \in TriggerPositions :
           moveTriggerPositionSlider(mainView, value)
    \/ \E mainView \in BOOLEAN, index \in OtherIndexes, value \in TriggerPositions :
           triggerPositionSliderChanged(mainView, index, value)
    \/ \E px \in RangePixels :
           \/ mouseMoveEvent(FALSE, TRUE, px[1], px[2])
           \/ mouseReleaseEvent(FALSE, "LeftButton", px[1], px[2])

RangeSpec == ZoomInit /\ [][RangeNext]_vars

\* Sizes the widget is given.
Sizes == {<<width, height>>, <<width \div 2, height \div 2>>}

\* Initialisation that succeeds or fails, frames, draws, resizes, and the
\* pointer events and shape buttons that update the markers.
InertNext ==
    \/ \E ok \in BOOLEAN : initializeGL(ok)
    \/ delivered < MaxTraceFrames /\ showData
    \/ paintGL(FALSE, "TY")
    \/ \E size \in Sizes : resizeGL(size[1], size[2])
    \/ \E channel \in Channels : voltageShapeClicked(channel)
    \/ \E px \in UnusedPixels :
           \/ mouseMoveEvent(FALSE, TRUE, px[1], px[2])
           \/ mouseReleaseEvent(FALSE, "LeftButton", px[1], px[2])

InertSpec == TraceInit /\ [][InertNext]_vars

Next ==
    \/ MirrorNext
    \/ InertNext
    \/ RangeNext
    \/ HistoryNext
    \/ TraceNext
    \/ \E zoomed \in BOOLEAN, format \in GraphFormats : paintGL(zoomed, format)
    \/ IndexNext
    \/ UnusedNext
    \/ PointerNext
    \/ HitNext
    \/ \E index \in CursorIds : cursorSelectorPressed(index)
    \/ \E marker \in Markers, value \in MarkerValues : moveMarkerSlider(marker, value)
    \/ \E mainView \in BOOLEAN, value \in TriggerPositions :
           moveTriggerPositionSlider(mainView, value)
    \/ \E channel \in Channels : voltageShapeClicked(channel)
    \/ \E channel \in Channels : spectrumShapeClicked(channel)
    \/ \E channel \in Channels, used \in BOOLEAN : updateVoltageUsed(channel, used)
    \/ \E channel \in Channels, used \in BOOLEAN : updateSpectrumUsed(channel, used)

Spec == Init /\ [][Next]_vars

\* ------------------------------------------------------------------------
\* Waveform history (GlScope::showData, GlScope::paintGL)
\* ------------------------------------------------------------------------

\* A showData call that passed the shaderCompileSuccess test ran last.
InsertedLast == lastOp = "showData" /\ inserted > 0 /\ shaderCompileSuccess

Slots(h) == {h[k].slot : k \in 1..Len(h)}

Frames(h) == [k \in 1..Len(h) |-> h[k].frame]

\* C1: after N insertions that all read capacity C, starting from the empty
\* history, the history holds exactly min(N, C) frames, newest first:
\* position k (from 0) holds the frame inserted k insertions before the
\* latest one.
C1_CountAndOrder ==
    \A C \in 0..MaxCapacity :
        insertCaps = {C} =>
            /\ Len(m_GraphHistory) = Min(inserted, C)
            /\ \A k \in 1..Len(m_GraphHistory) :
                   m_GraphHistory[k].frame = delivered - (k - 1)

\* C2: in every state in which no undefined behaviour has occurred, the number
\* of frames retained, and the number paintGL draws, is at most the capacity
\* configured at that moment.
C2_NeverExceedsCapacity ==
    ~fault =>
        /\ Len(m_GraphHistory) <= phosphorDraws
        /\ lastOp = "paintGL" => Len(drawn) <= phosphorDraws

\* C3: with capacity 0 or 1 a showData call touches no nonexistent element,
\* and afterwards the only frame retained is the latest one.
C3_CapacityZeroOneValid ==
    (InsertedLast /\ phosphorDraws \in {0, 1}) =>
        /\ ~fault
        /\ Len(m_GraphHistory) <= 1
        /\ \A k \in 1..Len(m_GraphHistory) : m_GraphHistory[k].frame = delivered

\* C4: when the capacity n read by showData is below the frame count, the
\* trimming loop leaves exactly the n newest frames, in their order and in
\* their nodes (the removed ones are exactly the oldest), and the call faults
\* only through the insertion that follows when n = 0.
C4_ShrinkDropsOldest ==
    (InsertedLast /\ phosphorDraws < Len(before)) =>
        /\ Len(afterTrim) = phosphorDraws
        /\ afterTrim = SubSeq(before, 1, phosphorDraws)
        /\ phosphorDraws > 0 => ~fault

\* A shrink by more than one frame to a non-zero capacity has just happened.
C4_Witness ==
    /\ InsertedLast
    /\ phosphorDraws >= 1
    /\ Len(before) >= phosphorDraws + 2
    /\ Len(afterTrim) = phosphorDraws

\* C5 as claimed: when the size is below the capacity n, the growth step
\* appends empty slots until the size is n.
C5_GrowsToCapacity ==
    (InsertedLast /\ Len(before) < phosphorDraws) =>
        Len(afterGrow) = phosphorDraws

\* C5 as the code has it: when the size is below the capacity n, the growth
\* step appends exactly one empty slot in a new node, whatever n is, and
\* that slot becomes the front slot holding the new frame.
C5_GrowsByOne ==
    (InsertedLast /\ Len(before) < phosphorDraws) =>
        /\ afterTrim = before
        /\ Len(afterGrow) = Len(before) + 1
        /\ SubSeq(afterGrow, 1, Len(before)) = before
        /\ afterGrow[Len(afterGrow)].frame = EMPTY_FRAME
        /\ afterGrow[Len(afterGrow)].slot \notin Slots(before)
        /\ m_GraphHistory = <<[slot |-> afterGrow[Len(afterGrow)].slot,
                               frame |-> delivered]>> \o before

\* A call has just grown a history that was two or more slots short.
C5_Witness ==
    /\ InsertedLast
    /\ Len(before) + 2 <= phosphorDraws
    /\ Len(m_GraphHistory) = Len(before) + 1

\* C6: at steady state (size = capacity >= 1) an insertion moves the last
\* node to the front and writes the new frame into it; the set of nodes is
\* unchanged, and every other frame keeps its node and content and moves
\* back by one position.
C6_RecyclesOldestSlot ==
    (InsertedLast /\ Len(before) = phosphorDraws /\ phosphorDraws >= 1) =>
        /\ Len(m_GraphHistory) = Len(before)
        /\ m_GraphHistory[1].slot = before[Len(before)].slot
        /\ m_GraphHistory[1].frame = delivered
        /\ Slots(m_GraphHistory) = Slots(before)
        /\ \A k \in 1..(Len(before) - 1) : m_GraphHistory[k + 1] = before[k]

\* An insertion at steady state with at least two frames retained.
C6_Witness ==
    /\ InsertedLast
    /\ Len(before) = phosphorDraws
    /\ phosphorDraws >= 2
    /\ m_GraphHistory[1].frame = delivered
    /\ m_GraphHistory[2] = before[1]

\* ------------------------------------------------------------------------
\* Pointer events on the cursors (GlScope::mouse*Event)
\* ------------------------------------------------------------------------

\* The snap radius of each axis: 1% of full scale.
SnapRadiusX == Hundredths(DIVS_TIME) \div 100

SnapRadiusY == Hundredths(DIVS_VOLTAGE) \div 100

DistX(cursor, m, P) == Abs(cursor.position[m].x - P.x)

DistY(cursor, m, P) == Abs(cursor.position[m].y - P.y)

AxisX(cursor) == cursor.shape \in {"RECTANGULAR", "VERTICAL"}

AxisY(cursor) == cursor.shape \in {"RECTANGULAR", "HORIZONTAL"}

\* Marker m is within 1% of full scale of P on a capturable axis, the border
\* included.
WithinSnap(cursor, m, P) ==
    \/ AxisX(cursor) /\ DistX(cursor, m, P) <= SnapRadiusX
    \/ AxisY(cursor) /\ DistY(cursor, m, P) <= SnapRadiusY

\* The same with the border excluded.
StrictlyWithinSnap(cursor, m, P) ==
    \/ AxisX(cursor) /\ DistX(cursor, m, P) < SnapRadiusX
    \/ AxisY(cursor) /\ DistY(cursor, m, P) < SnapRadiusY

\* A step is a left-button pointer-down in the main view at pixel px.
PressAt(px) == mousePressEvent(FALSE, "LeftButton", px[1], px[2])

\* A step is a move in the main view at pixel px with the left button held.
MoveAt(px) == mouseMoveEvent(FALSE, TRUE, px[1], px[2])

Selected == cursorInfo[selectedCursor]

\* The step changes no shape and no cursor but the selected one.
OnlySelectedMoved ==
    /\ \A c \in CursorIds : cursorInfo'[c].shape = cursorInfo[c].shape
    /\ \A c \in CursorIds \ {selectedCursor} : cursorInfo'[c] = cursorInfo[c]

\* The step changes nothing of the cursors but the position of marker m of
\* the selected cursor.
OnlyMarkerMoved(m) ==
    /\ OnlySelectedMoved
    /\ \A o \in Markers \ {m} :
           cursorInfo'[selectedCursor].position[o] = Selected.position[o]

\* C7 as claimed: on a left-button pointer-down in the main view, when markers
\* of the selected cursor lie within 1% of full scale of the pointer on a
\* capturable axis (the border included), one of them becomes the selected
\* marker; a marker farther than 1% on every capturable axis never does.
C7_SnapRadius ==
    [][\A px \in PointerPixels :
          PressAt(px) =>
              LET P == EventPosition(px[1], px[2])
                  inside == {m \in Markers : WithinSnap(Selected, m, P)}
              IN  /\ selectedMarker' \in inside \cup {NO_MARKER}
                  /\ inside # {} => selectedMarker' \in inside]_vars

\* C7 as the code has it: the same with the border excluded. When markers lie
\* strictly closer than 1% of full scale on a capturable axis, one of them
\* becomes the selected marker; a marker at exactly 1% or farther on every
\* capturable axis never does.
C7_SnapRadiusStrict ==
    [][\A px \in PointerPixels :
          PressAt(px) =>
              LET P == EventPosition(px[1], px[2])
                  inside == {m \in Markers : StrictlyWithinSnap(Selected, m, P)}
              IN  /\ selectedMarker' \in inside \cup {NO_MARKER}
                  /\ inside # {} => selectedMarker' \in inside]_vars

\* A pointer-down exactly on the border of the snap area of both markers, on
\* every capturable axis, has just selected none of them.
C7_Witness ==
    /\ lastOp = "mousePressEvent"
    /\ drag = 1
    /\ Selected.shape = "RECTANGULAR"
    /\ \A m \in Markers :
           /\ DistX(Selected, m, pointer) = SnapRadiusX
           /\ DistY(Selected, m, pointer) = SnapRadiusY

\* The marker a single capturable axis selects: the one nearest on that axis
\* among those strictly inside the radius, marker 0 when both are equally
\* near, NO_MARKER when none is inside.
NearestOnAxis(d0, d1, radius) ==
    IF d1 < radius /\ (d1 < d0 \/ ~(d0 < radius)) THEN 1
    ELSE IF d0 < radius THEN 0
    ELSE NO_MARKER

\* C8: the capturable axes follow from the shape alone. A NONE cursor never
\* has a marker selected; for a VERTICAL cursor the x distances alone decide
\* the selection, for a HORIZONTAL cursor the y distances alone; for a
\* RECTANGULAR cursor a marker is selected exactly when one is inside the
\* radius on x or on y.
C8_CapturableAxes ==
    [][\A px \in PointerPixels :
          PressAt(px) =>
              LET P == EventPosition(px[1], px[2])
                  c == Selected
              IN  /\ c.shape = "NONE" => selectedMarker' = NO_MARKER
                  /\ c.shape = "VERTICAL" =>
                         selectedMarker' = NearestOnAxis(DistX(c, 0, P), DistX(c, 1, P),
                                                         SnapRadiusX)
                  /\ c.shape = "HORIZONTAL" =>
                         selectedMarker' = NearestOnAxis(DistY(c, 0, P), DistY(c, 1, P),
                                                         SnapRadiusY)
                  /\ c.shape = "RECTANGULAR" =>
                         (selectedMarker' # NO_MARKER <=>
                             \E m \in Markers :
                                 \/ DistX(c, m, P) < SnapRadiusX
                                 \/ DistY(c, m, P) < SnapRadiusY)]_vars

\* A pointer-down on a VERTICAL cursor, inside the radius of marker 0 on y
\* and outside on x, has just selected no marker.
C8_Witness ==
    /\ lastOp = "mousePressEvent"
    /\ drag = 1
    /\ Selected.shape = "VERTICAL"
    /\ selectedMarker = NO_MARKER
    /\ DistY(Selected, 0, pointer) < SnapRadiusY
    /\ DistX(Selected, 0, pointer) > SnapRadiusX

\* C9: a pointer-down that hits a marker sets that marker's position (both
\* coordinates) to the pointer position and changes no other marker; one
\* that hits none leaves NO_MARKER selected and changes no marker position
\* of any cursor.
C9_PressOutcome ==
    [][\A px \in PointerPixels :
          PressAt(px) =>
              IF selectedMarker' # NO_MARKER
                  THEN /\ selectedMarker' \in Markers
                       /\ cursorInfo'[selectedCursor].position[selectedMarker']
                              = EventPosition(px[1], px[2])
                       /\ OnlyMarkerMoved(selectedMarker')
                  ELSE cursorInfo' = cursorInfo]_vars

\* A pointer-down has just moved marker 0 of a channel cursor off its
\* default position on both axes, marker 1 being where it was.
C9_Witness ==
    /\ lastOp = "mousePressEvent"
    /\ selectedCursor # 0
    /\ selectedMarker = 0
    /\ Selected.position[0] = pointer
    /\ Selected.position[0].x # DefaultPosition[0].x
    /\ Selected.position[0].y # DefaultPosition[0].y
    /\ Selected.position[1] = DefaultPosition[1]

\* C10: a move with no marker anchored sets every marker of the selected
\* cursor to the pointer position and anchors the last marker; a move with
\* a marker anchored sets only that marker. Hence after a pointer-down that
\* hit no marker (drag = 1) the first move leaves both markers on its
\* position with marker 1 anchored (drag = 2), and the second move changes
\* marker 1 alone.
C10_UnanchoredDrag ==
    /\ [][\A px \in PointerPixels :
             MoveAt(px) =>
                 LET P == EventPosition(px[1], px[2])
                 IN  IF selectedMarker = NO_MARKER
                         THEN /\ \A m \in Markers :
                                     cursorInfo'[selectedCursor].position[m] = P
                              /\ selectedMarker' = MARKER_COUNT - 1
                              /\ OnlySelectedMoved
                         ELSE /\ cursorInfo'[selectedCursor].position[selectedMarker] = P
                              /\ OnlyMarkerMoved(selectedMarker)
                              /\ selectedMarker' = selectedMarker]_vars
    /\ [](drag = 1 => selectedMarker = NO_MARKER)
    /\ [](drag = 2 => /\ selectedMarker = 1
                      /\ Selected.position[0] = Selected.position[1])
    /\ [][\A px \in PointerPixels :
             (drag = 2 /\ MoveAt(px)) =>
                 /\ cursorInfo'[selectedCursor].position[1] = EventPosition(px[1], px[2])
                 /\ cursorInfo'[selectedCursor].position[0] = Selected.position[0]
                 /\ selectedMarker' = 1]_vars

\* The second move of an unanchored drag has just pulled marker 1 away from
\* marker 0.
C10_Witness ==
    /\ lastOp = "mouseMoveEvent"
    /\ drag = 3
    /\ selectedMarker = 1
    /\ Selected.position[1] = pointer
    /\ Selected.position[0] # pointer

\* A step is a left-button pointer-up in the main view at pixel px.
ReleaseAt(px) == mouseReleaseEvent(FALSE, "LeftButton", px[1], px[2])

\* C11: a pointer-up with a marker anchored sets that marker alone to the
\* pointer position and emits exactly one markerMoved, for that marker; with
\* none anchored it changes no position and emits nothing; in both cases no
\* marker is anchored afterwards, so that a move following the pointer-up
\* without a pointer-down in between sets every marker (starts unanchored).
C11_PointerUp ==
    /\ [][\A px \in PointerPixels :
             ReleaseAt(px) =>
                 /\ selectedMarker' = NO_MARKER
                 /\ IF selectedMarker \in Markers
                       THEN /\ cursorInfo'[selectedCursor].position[selectedMarker]
                                   = EventPosition(px[1], px[2])
                            /\ OnlyMarkerMoved(selectedMarker)
                            /\ Len(emitted') = 1
                            /\ emitted'[1].marker = selectedMarker
                       ELSE /\ cursorInfo' = cursorInfo
                            /\ emitted' = <<>>]_vars
    /\ [][\A px \in PointerPixels :
             (lastOp = "mouseReleaseEvent" /\ selectedMarker = NO_MARKER /\ MoveAt(px)) =>
                 \A m \in Markers :
                     cursorInfo'[selectedCursor].position[m]
                         = EventPosition(px[1], px[2])]_vars

\* A pointer-up has just dropped the anchored marker at the pointer position,
\* away from the other marker, with one notification.
C11_Witness ==
    /\ lastOp = "mouseReleaseEvent"
    /\ selectedMarker = NO_MARKER
    /\ Len(emitted) = 1
    /\ Selected.position[emitted[1].marker] = pointer
    /\ \E o \in Markers : Selected.position[o] # pointer

\* The handler that ran in the step is a pointer handler of the main view.
PointerStep == lastOp' \in {"mousePressEvent", "mouseMoveEvent", "mouseReleaseEvent"}

\* C12: whenever a pointer event of the main view changes the position of a
\* marker of the selected cursor, whichever cursor that is, a markerMoved
\* notification for that marker is emitted within the event.
C12_EveryMutationNotifies ==
    [][PointerStep =>
          \A m \in Markers :
              cursorInfo'[selectedCursor].position[m] # Selected.position[m] =>
                  \E k \in 1..Len(emitted') : emitted'[k].marker = m]_vars

\* The handler that ran in the step is a pointer handler of the zoomed view.
ZoomedPointerStep ==
    lastOp' \in {"zoomScope.mousePressEvent", "zoomScope.mouseMoveEvent",
                 "zoomScope.mouseReleaseEvent"}

\* C13: a pointer event delivered to the zoomed view changes no marker
\* position, no shape, neither the selected cursor nor the anchored marker,
\* and emits nothing.
C13_ZoomedViewIgnored ==
    [][ZoomedPointerStep =>
          /\ cursorInfo' = cursorInfo
          /\ selectedCursor' = selectedCursor
          /\ selectedMarker' = selectedMarker
          /\ emitted' = <<>>
          /\ signals' = <<>>
          /\ UNCHANGED <<vaMarker, markerSlider>>]_vars

\* A move with the left button held has just been delivered to the zoomed
\* view while marker 0 was anchored away from its default position.
C13_Witness ==
    /\ lastOp = "zoomScope.mouseMoveEvent"
    /\ selectedMarker = 0
    /\ Selected.position[0] # DefaultPosition[0]
    /\ emitted = <<>>

\* C14: the selected index is always the index of a cursor (0 at first), and
\* a selection change alters the selected index alone: no marker position
\* and no shape changes.
C14_Selection ==
    /\ [](selectedCursor \in CursorIds)
    /\ [][\A index \in CursorIds :
             cursorSelectorPressed(index) =>
                 /\ selectedCursor' = index
                 /\ cursorInfo' = cursorInfo
                 /\ UNCHANGED <<selectedMarker, vaMarker, markerSlider>>]_vars

\* The last cursor has just been selected after a marker of another cursor
\* was moved.
C14_Witness ==
    /\ lastOp = "cursorSelected"
    /\ selectedCursor = NumCursors - 1
    /\ \E c \in CursorIds \ {selectedCursor} :
           cursorInfo[c].position[0] # DefaultPosition[0]

\* ------------------------------------------------------------------------
\* Claims about the zoom mapping and the zoom trigger position slider
\* ------------------------------------------------------------------------

\* Positions the round trip is tried on, inside and outside the record.
RoundTripPositions ==
    {Ratio(n, 4) : n \in -2..6} \cup {Ratio(n, 5) : n \in 0..5}

\* C15: while the time markers have distinct x positions, in either order,
\* zoomToMain(mainToZoom(x)) = x and mainToZoom(zoomToMain(z)) = z for
\* every position (in exact arithmetic).
C15_ZoomRoundTrip ==
    getMarker(World, 0) # getMarker(World, 1) =>
        \A x \in RoundTripPositions :
            /\ zoomToMain(World, mainToZoom(World, x)) = x
            /\ mainToZoom(World, zoomToMain(World, x)) = x

\* Marker 0 lies right of marker 1, and the zoom slider has just been moved
\* away from the middle: the trigger position is its image in the main view.
C15_Witness ==
    /\ getMarker(World, 0) > getMarker(World, 1)
    /\ lastOp = "zoomTriggerPositionSlider"
    /\ zoomTriggerPositionSlider.value = maximum
    /\ triggerPosition = zoomToMain(World, zoomTriggerPositionSlider.value)
    /\ mainToZoom(World, triggerPosition) = zoomTriggerPositionSlider.value

\* C16: the zoom mapping is never evaluated while both time markers have
\* the same x position.
C16_NeverZeroWidth == ~zeroWidth

\* The slider state the clamping rule asks for, given the mapped value v.
Clamped(slider, v) ==
    /\ slider.enabled <=> (LessEq(minimum, v) /\ LessEq(v, maximum))
    /\ slider.enabled => slider.value = v
    /\ Less(v, minimum) => slider.value = minimum
    /\ Less(maximum, v) => slider.value = maximum

\* States the zoom trigger position slider can be in before a recomputation.
SliderStates == [enabled : BOOLEAN, value : TriggerPositions]

\* C17: whatever the zoom slider shows before, adaptTriggerPositionSlider
\* leaves it enabled with v = mainToZoom(trigger position) iff
\* min <= v <= max, and else disabled at the bound v is beyond; it emits no
\* signal and leaves the trigger position alone.
C17_Clamping ==
    \A old \in SliderStates :
        LET w == adaptTriggerPositionSlider(
                     [World EXCEPT !.zoomTriggerPositionSlider = old])
        IN  /\ Clamped(w.zoomTriggerPositionSlider,
                       mainToZoom(World, triggerPosition))
            /\ w.signals = <<>>
            /\ w.triggerPosition = triggerPosition
            /\ w.mainTriggerPositionSlider = mainTriggerPositionSlider

\* A marker slider has just been moved so that the trigger position maps
\* exactly onto the upper bound: the zoom slider is enabled there.
C17_Witness ==
    /\ lastOp = "markerSlider"
    /\ mainToZoom(World, triggerPosition) = maximum
    /\ zoomTriggerPositionSlider = [enabled |-> TRUE, value |-> maximum]

\* C18: after every event (marker slider, pointer event on the time cursor,
\* trigger position slider of either view) the zoom trigger position slider
\* is what the clamping rule gives for mainToZoom of the current trigger
\* position under the current markers.
C18_SliderFollows ==
    Clamped(zoomTriggerPositionSlider, mainToZoom(World, triggerPosition))

\* A pointer drag has just moved marker 1 alone so that the trigger position
\* fell out of the zoom window: the slider is disabled at a bound.
C18_Witness ==
    /\ lastOp = "mouseMoveEvent"
    /\ selectedMarker = 1
    /\ getMarker(World, 0) # getMarker(World, 1)
    /\ ~zoomTriggerPositionSlider.enabled
    /\ Less(maximum, mainToZoom(World, triggerPosition))

\* ------------------------------------------------------------------------
\* Claims about the measurement labels
\* ------------------------------------------------------------------------

\* The deltas of a cursor as updateMarkerDetails computes them.
DeltaX(c, scale, unit) ==
    valueToString((cursorInfo[c].position[1].x - cursorInfo[c].position[0].x) * scale,
                  unit)

DeltaY(c, scale, unit) ==
    valueToString((cursorInfo[c].position[1].y - cursorInfo[c].position[0].y) * scale,
                  unit)

\* C19: after updateMarkerDetails a used channel whose cursor has shape NONE
\* shows the deltas of its marker positions in both delta labels.
C19_UsedReportsValues ==
    LET w == updateMarkerDetails(World)
    IN  \A channel \in Channels :
            /\ (voltageUsed[channel]
                    /\ cursorInfo[VoltageCursor(channel)].shape = "NONE") =>
                   /\ w.voltageCursors[channel].deltaXLabel
                          = DeltaX(VoltageCursor(channel), timebase, "UNIT_SECONDS")
                   /\ w.voltageCursors[channel].deltaYLabel
                          = DeltaY(VoltageCursor(channel), gain(channel), "UNIT_VOLTS")
            /\ (spectrumUsed[channel]
                    /\ cursorInfo[SpectrumCursor(channel)].shape = "NONE") =>
                   /\ w.spectrumCursors[channel].deltaXLabel
                          = DeltaX(SpectrumCursor(channel), frequencybase, "UNIT_HERTZ")
                   /\ w.spectrumCursors[channel].deltaYLabel
                          = DeltaY(SpectrumCursor(channel),
                                   magnitude(channel) * DIVS_VOLTAGE, "UNIT_DECIBEL")

\* The labels of a used channel's cursor for its shape: "OFF" and no delta
\* for NONE, the y delta alone for HORIZONTAL, the x delta alone for
\* VERTICAL, both for RECTANGULAR.
ShownFor(info, shape, strX, strY) ==
    /\ info.selector
    /\ info.shape = CASE shape = "NONE" -> "OFF"
                       [] shape = "HORIZONTAL" -> "="
                       [] shape = "VERTICAL" -> "||"
                       [] shape = "RECTANGULAR" -> "#"
    /\ info.deltaXLabel = IF shape \in {"VERTICAL", "RECTANGULAR"} THEN strX ELSE QString
    /\ info.deltaYLabel = IF shape \in {"HORIZONTAL", "RECTANGULAR"} THEN strY ELSE QString

\* C19 as the code has it: after updateMarkerDetails a used channel shows
\* "OFF" and empty deltas for shape NONE, and the deltas of its marker
\* positions on the axes of its shape otherwise.
C19_UsedReportsPerShape ==
    LET w == updateMarkerDetails(World)
    IN  \A channel \in Channels :
            /\ voltageUsed[channel] =>
                   ShownFor(w.voltageCursors[channel],
                            cursorInfo[VoltageCursor(channel)].shape,
                            DeltaX(VoltageCursor(channel), timebase, "UNIT_SECONDS"),
                            DeltaY(VoltageCursor(channel), gain(channel), "UNIT_VOLTS"))
            /\ spectrumUsed[channel] =>
                   ShownFor(w.spectrumCursors[channel],
                            cursorInfo[SpectrumCursor(channel)].shape,
                            DeltaX(SpectrumCursor(channel), frequencybase, "UNIT_HERTZ"),
                            DeltaY(SpectrumCursor(channel),
                                   magnitude(channel) * DIVS_VOLTAGE, "UNIT_DECIBEL"))

\* The cursor of a used voltage channel has just been switched off after
\* its markers were moved: its labels read "OFF" and nothing else.
C19_Witness ==
    /\ lastOp = "voltageShapeClicked"
    /\ \E channel \in Channels :
           /\ voltageUsed[channel]
           /\ cursorInfo[VoltageCursor(channel)].shape = "NONE"
           /\ cursorInfo[VoltageCursor(channel)].position # DefaultPosition
           /\ voltageCursors[channel].shape = "OFF"
           /\ voltageCursors[channel].deltaXLabel = QString
           /\ voltageCursors[channel].deltaYLabel = QString

\* The row of a channel's cursor is cleared and its selector disabled.
Cleared(info) ==
    /\ ~info.selector
    /\ info.shape = ""
    /\ info.deltaXLabel = QString
    /\ info.deltaYLabel = QString

\* C20: when the used-changed handler of a voltage or of a spectrum channel
\* returns, the channel's cursor row is cleared and its selector disabled
\* if the channel is no longer used, and its selector is enabled if it is
\* used again.
C20_UsedChangedClears ==
    [][\A channel \in Channels :
          /\ updateVoltageUsed(channel, FALSE) => Cleared(voltageCursors'[channel])
          /\ updateVoltageUsed(channel, TRUE) => voltageCursors'[channel].selector
          /\ updateSpectrumUsed(channel, FALSE) => Cleared(spectrumCursors'[channel])
          /\ updateSpectrumUsed(channel, TRUE) => spectrumCursors'[channel].selector]_vars

\* The markers of the measurement example: marker 0 at (0, 0), marker 1 at
\* (2, 1), in divisions.
ExamplePosition ==
    [m \in Markers |-> IF m = 0 THEN [x |-> 0, y |-> 0]
                                ELSE [x |-> Hundredths(2), y |-> Hundredths(1)]]

\* A time delta in microseconds and a voltage delta in millivolts.
Microseconds(value) == 5 * value

Millivolts(value) == value

\* The positions of a cursor with its two markers exchanged.
Swapped(position) == [m \in Markers |-> position[1 - m]]

\* C21: for a used voltage channel with a Rectangular cursor
\* updateMarkerDetails reports (pos1.x - pos0.x) * timebase and
\* (pos1.y - pos0.y) * gain, signed: with the markers exchanged it reports
\* the negated values; for pos0 = (0, 0), pos1 = (2, 1), 0.5 V/div and
\* 1e-3 s/div it reports 2e-3 s and 0.5 V.
C21_SignedVoltageDeltas ==
    \A channel \in Channels :
        LET c == VoltageCursor(channel)
            position == cursorInfo[c].position
            info == updateMarkerDetails(World).voltageCursors[channel]
            exchanged == updateMarkerDetails(
                             [World EXCEPT !.cursorInfo[c].position = Swapped(position)]
                         ).voltageCursors[channel]
        IN  (voltageUsed[channel] /\ cursorInfo[c].shape = "RECTANGULAR") =>
                /\ info.deltaXLabel
                       = <<(position[1].x - position[0].x) * timebase, "UNIT_SECONDS">>
                /\ info.deltaYLabel
                       = <<(position[1].y - position[0].y) * gain(channel), "UNIT_VOLTS">>
                /\ exchanged.deltaXLabel = <<-info.deltaXLabel[1], "UNIT_SECONDS">>
                /\ exchanged.deltaYLabel = <<-info.deltaYLabel[1], "UNIT_VOLTS">>
                /\ position = ExamplePosition =>
                       /\ Microseconds(info.deltaXLabel[1]) = 2000
                       /\ Millivolts(info.deltaYLabel[1]) = 500

\* The cursor of voltage channel 0 has just been dragged onto the markers
\* of the example: its row shows 2 ms and 0.5 V.
C21_Witness ==
    /\ lastOp = "mouseMoveEvent"
    /\ selectedCursor = VoltageCursor(0)
    /\ voltageUsed[0]
    /\ cursorInfo[VoltageCursor(0)].shape = "RECTANGULAR"
    /\ cursorInfo[VoltageCursor(0)].position = ExamplePosition
    /\ voltageCursors[0].deltaXLabel = <<400, "UNIT_SECONDS">>
    /\ voltageCursors[0].deltaYLabel = <<500, "UNIT_VOLTS">>

\* C22: for the time markers updateMarkerDetails reports
\* |pos1.x - pos0.x| * timebase and |pos1.x - pos0.x| * frequencybase in the
\* delta labels of the marker row: both are non-negative and the same with
\* the markers exchanged, and the frequency delta is the second of them.
C22_AbsoluteTimeDeltas ==
    LET position == cursorInfo[0].position
        distance == Abs(position[1].x - position[0].x)
        info == updateMarkerDetails(World).markerInfo
        exchanged == updateMarkerDetails(
                         [World EXCEPT !.cursorInfo[0].position = Swapped(position)]
                     ).markerInfo
    IN  /\ info.deltaXLabel = <<distance * timebase, "UNIT_SECONDS">>
        /\ info.deltaYLabel = <<distance * frequencybase, "UNIT_HERTZ">>
        /\ info.deltaXLabel[1] >= 0
        /\ info.deltaYLabel[1] >= 0
        /\ exchanged = info

\* A marker slider has just been moved so that marker 0 lies right of
\* marker 1: the marker row shows the positive distance times the scale
\* factors.
C22_Witness ==
    /\ lastOp = "markerSlider"
    /\ getMarker(World, 0) > getMarker(World, 1)
    /\ markerInfo.deltaXLabel
           = <<(getMarker(World, 0) - getMarker(World, 1)) * timebase, "UNIT_SECONDS">>
    /\ markerInfo.deltaYLabel
           = <<(getMarker(World, 0) - getMarker(World, 1)) * frequencybase, "UNIT_HERTZ">>

\* ------------------------------------------------------------------------
\* Claims about the cursor geometry
\* ------------------------------------------------------------------------

\* The four vertices form a closed loop of axis-aligned edges: each vertex
\* shares a coordinate with the next, the last with the first, and the
\* edges alternate between the two directions.
ClosedAxisAlignedLoop(v) ==
    /\ Len(v) = 4
    /\ \/ /\ v[1].x = v[2].x /\ v[2].y = v[3].y
          /\ v[3].x = v[4].x /\ v[4].y = v[1].y
       \/ /\ v[1].y = v[2].y /\ v[2].x = v[3].x
          /\ v[3].y = v[4].y /\ v[4].x = v[1].x

\* The extent of the vertices on each axis covers the whole grid.
CoversX(v) ==
    /\ \E k \in 1..4 : 2 * v[k].x <= -Hundredths(DIVS_TIME)
    /\ \E k \in 1..4 : 2 * v[k].x >= Hundredths(DIVS_TIME)

CoversY(v) ==
    /\ \E k \in 1..4 : 2 * v[k].y <= -Hundredths(DIVS_VOLTAGE)
    /\ \E k \in 1..4 : 2 * v[k].y >= Hundredths(DIVS_VOLTAGE)

\* The cursor with the y, the x, or both coordinates of its markers put
\* elsewhere.
WithY(cursor, y) == [cursor EXCEPT !.position[0].y = y, !.position[1].y = -y]

WithX(cursor, x) == [cursor EXCEPT !.position[0].x = x, !.position[1].x = -x]

\* C23: for every cursor, generateVertices yields a closed axis-aligned
\* loop of four vertices: the corners (pos0.x, pos0.y), (pos0.x, pos1.y),
\* (pos1.x, pos1.y), (pos1.x, pos0.y) for Rectangular; the whole vertical
\* extent at x = pos0.x and x = pos1.x, whatever the y positions, for
\* Vertical; the whole horizontal extent at y = pos0.y and y = pos1.y,
\* whatever the x positions, for Horizontal; a rectangle over the whole
\* grid, whatever the positions, for None.
C23_Geometry ==
    \A c \in CursorIds :
        LET cursor == cursorInfo[c]
            p == cursor.position
            v == generateVertices(cursor)
        IN  /\ ClosedAxisAlignedLoop(v)
            /\ cursor.shape = "RECTANGULAR" =>
                   /\ v = <<[x |-> p[0].x, y |-> p[0].y], [x |-> p[0].x, y |-> p[1].y],
                            [x |-> p[1].x, y |-> p[1].y], [x |-> p[1].x, y |-> p[0].y]>>
                   /\ p = DefaultPosition =>
                          v = <<[x |-> -100, y |-> -100], [x |-> -100, y |-> 100],
                                [x |-> 100, y |-> 100], [x |-> 100, y |-> -100]>>
            /\ cursor.shape = "VERTICAL" =>
                   /\ {v[k].x : k \in 1..4} = {p[0].x, p[1].x}
                   /\ CoversY(v)
                   /\ \A y \in {0, 37} : generateVertices(WithY(cursor, y)) = v
            /\ cursor.shape = "HORIZONTAL" =>
                   /\ {v[k].y : k \in 1..4} = {p[0].y, p[1].y}
                   /\ CoversX(v)
                   /\ \A x \in {0, 37} : generateVertices(WithX(cursor, x)) = v
            /\ cursor.shape = "NONE" =>
                   /\ CoversX(v)
                   /\ CoversY(v)
                   /\ \A x \in {0, 37} :
                          generateVertices(WithX(WithY(cursor, x + 1), x)) = v

\* A marker of a Horizontal cursor has just been dragged and dropped: the
\* stored outline runs over the whole width at the y positions of its
\* markers.
C23_Witness ==
    /\ lastOp = "mouseReleaseEvent"
    /\ Selected.shape = "HORIZONTAL"
    /\ Selected.position[0].y # DefaultPosition[0].y
    /\ Selected.position[0].x # Selected.position[1].x
    /\ vaMarker[selectedCursor] = generateVertices(Selected)
    /\ vaMarker[selectedCursor][2] = [x |-> Hundredths(DIVS_TIME),
                                      y |-> Selected.position[0].y]

\* C24: whenever an event changes a marker position or a shape, the stored
\* outline of every cursor is, when the event has been processed, the one
\* generateVertices gives for the cursor's shape and positions.
C24_GeometryFollows ==
    [][cursorInfo' # cursorInfo =>
          \A c \in CursorIds : vaMarker'[c] = generateVertices(cursorInfo'[c])]_vars

\* ------------------------------------------------------------------------
\* Claims about the shape buttons
\* ------------------------------------------------------------------------

\* The shape a click on the shape button asks for.
Toggled(shape) == IF shape = "NONE" THEN "RECTANGULAR" ELSE "NONE"

\* The step changes the shape of cursor c to `shape` and nothing else of
\* any cursor.
OnlyShapeSet(c, shape) == cursorInfo' = [cursorInfo EXCEPT ![c].shape = shape]

\* C25: every click on the shape button of a channel cursor, voltage or
\* spectrum, changes the stored shape of that cursor within the event,
\* whatever the state of the channel.
C25_ToggleUnconditional ==
    [][\A channel \in Channels :
          /\ voltageShapeClicked(channel) =>
                 cursorInfo'[VoltageCursor(channel)].shape
                     # cursorInfo[VoltageCursor(channel)].shape
          /\ spectrumShapeClicked(channel) =>
                 cursorInfo'[SpectrumCursor(channel)].shape
                     # cursorInfo[SpectrumCursor(channel)].shape]_vars

\* C25 as the code has it: a click on the shape button of a used channel
\* sets the cursor's shape to Rectangular if it was None and to None
\* otherwise, within the event; a click for an unused channel leaves the
\* shape as it is. No position changes either way.
C25_ToggleWhenUsed ==
    [][\A channel \in Channels :
          /\ voltageShapeClicked(channel) =>
                 OnlyShapeSet(VoltageCursor(channel),
                              IF voltageUsed[channel]
                                  THEN Toggled(cursorInfo[VoltageCursor(channel)].shape)
                                  ELSE cursorInfo[VoltageCursor(channel)].shape)
          /\ spectrumShapeClicked(channel) =>
                 OnlyShapeSet(SpectrumCursor(channel),
                              IF spectrumUsed[channel]
                                  THEN Toggled(cursorInfo[SpectrumCursor(channel)].shape)
                                  ELSE cursorInfo[SpectrumCursor(channel)].shape)]_vars

\* The shape button of a voltage channel has just been clicked while no
\* voltage channel is used: a cursor is still Rectangular.
C25_Witness ==
    /\ lastOp = "voltageShapeClicked"
    /\ \A channel \in Channels : ~voltageUsed[channel]
    /\ \E channel \in Channels :
           cursorInfo[VoltageCursor(channel)].shape = "RECTANGULAR"

\* ------------------------------------------------------------------------
\* Claims about the order of mutation and notification
\* ------------------------------------------------------------------------

\* C26: no notification handler runs while the marker mutations of the
\* event are partly applied: the positions each handler sees are the
\* positions the event leaves.
C26_NoPartialObservation ==
    [][PointerStep =>
          \A k \in 1..Len(emitted') :
              emitted'[k].position = cursorInfo'[selectedCursor].position]_vars

\* C26 as the code has it: an unanchored move runs the notification
\* handler once per marker, right after that marker is set: the first time
\* with marker 0 at P and marker 1 where it was, the second time with both
\* at P; when the event has been processed, every outline is the one of
\* the final positions. The same holds at the end of every pointer event
\* that notified: the last handler saw the final positions.
C26_NotifiedPerMarker ==
    /\ [][\A px \in PointerPixels :
             (MoveAt(px) /\ selectedMarker = NO_MARKER) =>
                 LET P == EventPosition(px[1], px[2])
                 IN  /\ emitted' =
                            <<[marker |-> 0,
                               position |-> [Selected.position EXCEPT ![0] = P]],
                              [marker |-> 1,
                               position |-> [m \in Markers |-> P]]>>
                     /\ \A c \in CursorIds :
                            vaMarker'[c] = generateVertices(cursorInfo'[c])]_vars
    /\ [][(PointerStep /\ emitted' # <<>>) =>
             /\ emitted'[Len(emitted')].position = cursorInfo'[selectedCursor].position
             /\ \A c \in CursorIds :
                    vaMarker'[c] = generateVertices(cursorInfo'[c])]_vars

\* An unanchored move has just run: its first handler saw marker 1 away
\* from the pointer, its second saw it at the pointer.
C26_Witness ==
    /\ lastOp = "mouseMoveEvent"
    /\ Len(emitted) = 2
    /\ emitted[1].position[0] = pointer
    /\ emitted[1].position[1] # pointer
    /\ emitted[2].position[1] = pointer
    /\ vaMarker[selectedCursor] = generateVertices(Selected)

\* ------------------------------------------------------------------------
\* Claims about the marker a pointer-down anchors
\* ------------------------------------------------------------------------

\* The square of the distance of marker m from P over the capturable axes.
DistSq(cursor, m, P) ==
    (IF AxisX(cursor) THEN DistX(cursor, m, P) * DistX(cursor, m, P) ELSE 0)
        + (IF AxisY(cursor) THEN DistY(cursor, m, P) * DistY(cursor, m, P) ELSE 0)

\* C27: on a pointer-down with markers of the selected cursor within the
\* snap area, the marker anchored is one of them and none of them is
\* nearer to the pointer, for a Rectangular cursor as for the others.
C27_CapturesNearest ==
    [][\A px \in HitPixels :
          PressAt(px) =>
              LET P == EventPosition(px[1], px[2])
                  inside == {m \in Markers : StrictlyWithinSnap(Selected, m, P)}
              IN  inside # {} =>
                      /\ selectedMarker' \in inside
                      /\ \A m \in inside :
                             DistSq(Selected, selectedMarker', P)
                                 <= DistSq(Selected, m, P)]_vars

\* Marker 1 is strictly inside the snap radius on the x axis, if capturable,
\* and strictly nearer than marker 0 there; the same for y.
LaterWinsX(cursor, P) ==
    /\ AxisX(cursor)
    /\ DistX(cursor, 1, P) < SnapRadiusX
    /\ DistX(cursor, 1, P) < DistX(cursor, 0, P)

LaterWinsY(cursor, P) ==
    /\ AxisY(cursor)
    /\ DistY(cursor, 1, P) < SnapRadiusY
    /\ DistY(cursor, 1, P) < DistY(cursor, 0, P)

C29_PointerFrame ==
    [][PointerStep =>
          /\ selectedCursor' = selectedCursor
          /\ \A c \in CursorIds :
                 /\ cursorInfo'[c].shape = cursorInfo[c].shape
                 /\ c # selectedCursor =>
                        cursorInfo'[c].position = cursorInfo[c].position
          /\ (lastOp' # "mousePressEvent" /\ selectedMarker \in Markers) =>
                 \A o \in Markers \ {selectedMarker} :
                     cursorInfo'[selectedCursor].position[o] = Selected.position[o]]_vars

\* A move has just carried the anchored marker 0 of a channel cursor to the
\* pointer, off its default on both axes; marker 1 and the time cursor are
\* where they were.
C29_Witness ==
    /\ lastOp = "mouseMoveEvent"
    /\ selectedCursor # 0
    /\ selectedMarker = 0
    /\ Selected.position[0] = pointer
    /\ pointer.x # DefaultPosition[0].x
    /\ pointer.y # DefaultPosition[0].y
    /\ Selected.position[1] = DefaultPosition[1]
    /\ cursorInfo[0].position = DefaultPosition

\* C30: every marker position of every cursor lies inside the grid, also
\* after a drag whose pointer positions are reported outside the widget.
C30_InsideGrid ==
    \A c \in CursorIds, m \in Markers :
        /\ 2 * Abs(cursorInfo[c].position[m].x) <= Hundredths(DIVS_TIME)
        /\ 2 * Abs(cursorInfo[c].position[m].y) <= Hundredths(DIVS_VOLTAGE)

\* ------------------------------------------------------------------------
\* Claims about the cursors of channels that are not used
\* ------------------------------------------------------------------------

\* The channel cursor c belongs to is used.
CursorUsed(c) ==
    IF c = 0 THEN TRUE
    ELSE IF c <= NumChannels THEN voltageUsed[c - 1]
    ELSE spectrumUsed[c - 1 - NumChannels]

\* The row of the measurement table that shows cursor c, after the step.
RowAfter(c) ==
    IF c = 0 THEN markerInfo'
    ELSE IF c <= NumChannels THEN voltageCursors'[c - 1]
    ELSE spectrumCursors'[c - 1 - NumChannels]

\* The step is a move or a release of a drag that has set a marker.
DragStep == lastOp' \in {"mouseMoveEvent", "mouseReleaseEvent"} /\ emitted' # <<>>

\* C31: for a channel that is not used, a click on the shape button of its
\* cursor leaves the stored shape as it is, and after the click, and after a
\* move or release of a drag on its cursor, the selector of its row is
\* disabled and the shape and delta labels are empty; a draw of the main
\* view does not draw its outline.
C31_UnusedNeverSurfaces ==
    /\ [][\A channel \in Channels :
             /\ (~voltageUsed[channel] /\ voltageShapeClicked(channel)) =>
                    /\ cursorInfo'[VoltageCursor(channel)] = cursorInfo[VoltageCursor(channel)]
                    /\ Cleared(voltageCursors'[channel])
             /\ (~spectrumUsed[channel] /\ spectrumShapeClicked(channel)) =>
                    /\ cursorInfo'[SpectrumCursor(channel)] = cursorInfo[SpectrumCursor(channel)]
                    /\ Cleared(spectrumCursors'[channel])]_vars
    /\ [][(DragStep /\ ~CursorUsed(selectedCursor)) => Cleared(RowAfter(selectedCursor))]_vars
    /\ [][(lastOp' = "paintGL" /\ shaderCompileSuccess) =>
             \A k \in 1..Len(outlines') : CursorUsed(outlines'[k].cursor)]_vars

\* The main view has just been drawn with a channel cursor selected whose
\* channel is not used and whose markers a drag has left on the pointer:
\* only the used cursors have been drawn, and the row of the selected one
\* is cleared.
C31_Witness ==
    /\ lastOp = "paintGL"
    /\ shaderCompileSuccess
    /\ selectedCursor # 0
    /\ ~CursorUsed(selectedCursor)
    /\ \A m \in Markers : Selected.position[m] = pointer
    /\ pointer # [x |-> 0, y |-> 0]
    /\ Len(outlines) = NumCursors - 1
    /\ \A k \in 1..Len(outlines) : outlines[k].cursor # selectedCursor
    /\ Cleared(IF selectedCursor <= NumChannels
                   THEN voltageCursors[selectedCursor - 1]
                   ELSE spectrumCursors[selectedCursor - 1 - NumChannels])

\* ------------------------------------------------------------------------
\* Claims about the traces of the retained frames
\* ------------------------------------------------------------------------

\* The traces hold a draw call of the given kind for the channel's graph of
\* the frame at historyIndex.
Traced(t, kind, channel, historyIndex) ==
    \E k \in 1..Len(t) :
        /\ t[k].kind = kind
        /\ t[k].channel = channel
        /\ t[k].historyIndex = historyIndex

\* The step is a draw, by a view whose shaders are set up, in the format.
DrawStep(format) ==
    /\ shaderCompileSuccess
    /\ paintGL(FALSE, format)

\* C32 as claimed: a draw draws a channel's trace of a retained frame iff the
\* channel was used when the frame was inserted, whatever has become of the
\* used flag since (spectrum traces in the TY format only).
C32_DrawnByCapturedFlags ==
    [][\A format \in GraphFormats :
          DrawStep(format) =>
              \A k \in 1..Len(m_GraphHistory), channel \in Channels :
                  LET captured == usedAtInsert[m_GraphHistory[k].frame]
                  IN  /\ Traced(traces', "voltage", channel, k - 1)
                          <=> captured.voltage[channel]
                      /\ Traced(traces', "spectrum", channel, k - 1)
                          <=> (format = "TY" /\ captured.spectrum[channel])]_vars

\* C32 amended: a draw draws a channel's trace of every retained frame iff
\* the channel is used at the draw, whatever the flag was when the frame was
\* inserted (spectrum traces in the TY format only).
C32_DrawnByCurrentFlags ==
    [][\A format \in GraphFormats :
          DrawStep(format) =>
              \A k \in 1..Len(m_GraphHistory), channel \in Channels :
                  /\ Traced(traces', "voltage", channel, k - 1)
                      <=> voltageUsed[channel]
                  /\ Traced(traces', "spectrum", channel, k - 1)
                      <=> (format = "TY" /\ spectrumUsed[channel])]_vars

\* A draw has just left out the voltage traces of two retained frames that
\* were inserted while the channel was used, and drawn their spectrum
\* traces.
C32_Witness ==
    /\ lastOp = "paintGL"
    /\ Len(m_GraphHistory) = 2
    /\ drawn = [k \in 1..2 |-> m_GraphHistory[k].frame]
    /\ ~voltageUsed[0]
    /\ \A k \in 1..2 : usedAtInsert[m_GraphHistory[k].frame].voltage[0]
    /\ Len(traces) = 2
    /\ \A k \in 1..2 : traces[k].kind = "spectrum" /\ traces[k].frame = drawn[k]

\* C33: the traces of the newest retained frame (history index 0) are drawn
\* with factor 100, the channel colour at full intensity; the factor is
\* 100 + 10 * index, and of two traces of one channel the one of the older
\* frame has the larger factor and is not brighter.
C33_FadeByAge ==
    \A a \in 1..Len(traces) :
        /\ traces[a].factor = 100 + 10 * traces[a].historyIndex
        /\ traces[a].historyIndex = 0 =>
               /\ darker(traces[a].factor) = darker(100)
               /\ \A b \in 1..Len(traces) : traces[b].frame <= traces[a].frame
        /\ \A b \in 1..Len(traces) :
               traces[b].frame < traces[a].frame =>
                   /\ traces[b].historyIndex > traces[a].historyIndex
                   /\ traces[b].factor > traces[a].factor
                   /\ darker(traces[b].factor) <= darker(traces[a].factor)

\* A draw has just drawn the voltage traces of three retained frames, the
\* newest with factor 100, the older ones with 110 and 120.
C33_Witness ==
    /\ lastOp = "paintGL"
    /\ Len(m_GraphHistory) = 3
    /\ m_GraphHistory[1].frame > m_GraphHistory[2].frame
    /\ m_GraphHistory[2].frame > m_GraphHistory[3].frame
    /\ \A k \in 1..3 :
           \E a \in 1..Len(traces) :
               /\ traces[a].kind = "voltage"
               /\ traces[a].channel = 0
               /\ traces[a].frame = m_GraphHistory[k].frame
               /\ traces[a].factor = 100 + 10 * (k - 1)

\* ------------------------------------------------------------------------
\* Claims about the shapes the shape buttons store
\* ------------------------------------------------------------------------

\* The step is a click on the shape button of cursor c, whose channel is used.
UsedShapeClick(c) ==
    \E channel \in Channels :
        \/ c = VoltageCursor(channel) /\ voltageUsed[channel]
                                      /\ voltageShapeClicked(channel)
        \/ c = SpectrumCursor(channel) /\ spectrumUsed[channel]
                                       /\ spectrumShapeClicked(channel)

\* C34: a click on the shape button of a used channel's cursor turns None
\* into Rectangular and Rectangular, Vertical and Horizontal into None; the
\* shape is None or Rectangular afterwards, a further click would restore a
\* shape that was None or Rectangular, and no marker position and no other
\* cursor's shape changes.
C34_ToggleMap ==
    [][\A c \in CursorIds \ {0} :
          UsedShapeClick(c) =>
              LET old == cursorInfo[c].shape
                  new == cursorInfo'[c].shape
              IN  /\ old = "NONE" => new = "RECTANGULAR"
                  /\ old \in {"RECTANGULAR", "VERTICAL", "HORIZONTAL"} => new = "NONE"
                  /\ new \in {"NONE", "RECTANGULAR"}
                  /\ old \in {"NONE", "RECTANGULAR"} => toggleShape(new) = old
                  /\ \A o \in CursorIds :
                         /\ cursorInfo'[o].position = cursorInfo[o].position
                         /\ o # c => cursorInfo'[o].shape = cursorInfo[o].shape]_vars

\* A click has just turned the Vertical cursor of a used spectrum channel
\* into None; the voltage cursor of the channel is Vertical as before, and
\* the markers are where a drag has left them.
C34_Witness ==
    /\ lastOp = "spectrumShapeClicked"
    /\ spectrumUsed[0]
    /\ cursorInfo[SpectrumCursor(0)].shape = "NONE"
    /\ spectrumCursors[0].shape = "OFF"
    /\ cursorInfo[VoltageCursor(0)].shape = "VERTICAL"
    /\ cursorInfo[SpectrumCursor(0)].position # DefaultPosition

\* ------------------------------------------------------------------------
\* Claims about the buttons of pointer events
\* ------------------------------------------------------------------------

\* The step is an event of the main view at pixel px that does not involve
\* the left button: a pointer-down or pointer-up of the right button, or a
\* move while the left button is not held.
OtherButtonAt(px) ==
    \/ mousePressEvent(FALSE, "RightButton", px[1], px[2])
    \/ mouseReleaseEvent(FALSE, "RightButton", px[1], px[2])
    \/ mouseMoveEvent(FALSE, FALSE, px[1], px[2])

\* C35: a pointer-down or pointer-up of another button than the left one and
\* a move while the left button is not held, in the main view, change no
\* marker position, leave the anchored marker as it is, anchored or not, and
\* emit no notification.
C35_OnlyLeftButton ==
    [][\A px \in IgnoredPixels :
          OtherButtonAt(px) =>
              /\ \A c \in CursorIds :
                     cursorInfo'[c].position = cursorInfo[c].position
              /\ selectedMarker' = selectedMarker
              /\ emitted' = <<>>
              /\ signals' = <<>>]_vars

\* The right button has just been released in the main view in the middle
\* of a drag of marker 0: the marker is still anchored, at the position of
\* the last left-button event, and nothing was emitted.
C35_Witness ==
    /\ lastOp = "mouseReleaseEvent"
    /\ selectedMarker = 0
    /\ Selected.position[0] = pointer
    /\ Selected.position[0] # DefaultPosition[0]
    /\ emitted = <<>>

\* ------------------------------------------------------------------------
\* Claims about the numbering of the cursors
\* ------------------------------------------------------------------------

\* The labels the row of cursor k is to show for the positions and the shape
\* the step leaves in cursor k: index 0 is the time markers, 1..V the voltage
\* channels (seconds and volts), V+1..V+S the spectrum channels (hertz and
\* decibels).
RowShowsCursorAfter(k) ==
    LET p == cursorInfo'[k].position
        dx == p[1].x - p[0].x
        dy == p[1].y - p[0].y
    IN  IF k = 0
            THEN /\ markerInfo'.deltaXLabel = valueToString(Abs(dx) * timebase, "UNIT_SECONDS")
                 /\ markerInfo'.deltaYLabel = valueToString(Abs(dx) * frequencybase, "UNIT_HERTZ")
        ELSE IF k <= NumChannels
            THEN ShownFor(voltageCursors'[k - 1], cursorInfo'[k].shape,
                          valueToString(dx * timebase, "UNIT_SECONDS"),
                          valueToString(dy * gain(k - 1), "UNIT_VOLTS"))
        ELSE ShownFor(spectrumCursors'[k - 1 - NumChannels], cursorInfo'[k].shape,
                      valueToString(dx * frequencybase, "UNIT_HERTZ"),
                      valueToString(dy * magnitude(k - 1 - NumChannels) * DIVS_VOLTAGE,
                                    "UNIT_DECIBEL"))

\* C36: index k means one cursor everywhere. The selector button with id k
\* is the one of row k and selects k; a pointer event with k selected
\* changes cursor k alone; when it has notified, geometry slot k is the
\* outline of cursor k and row k shows the deltas of cursor k in the units
\* of its kind; a draw draws the slots of the used cursors in the order of
\* the indices, slot k under the used flag of cursor k, and highlights slot
\* k exactly if k is selected.
C36_IndexingConsistent ==
    /\ [][\A k \in CursorIds :
             cursorSelectorPressed(k) =>
                 /\ selectedCursor' = k
                 /\ (IF k = 0 THEN markerInfo
                      ELSE IF k <= NumChannels THEN voltageCursors[k - 1]
                      ELSE spectrumCursors[k - 1 - NumChannels]).selector]_vars
    /\ [][PointerStep =>
             /\ \A c \in CursorIds \ {selectedCursor} : cursorInfo'[c] = cursorInfo[c]
             /\ emitted' # <<>> =>
                    /\ vaMarker'[selectedCursor] = generateVertices(cursorInfo'[selectedCursor])
                    /\ CursorUsed(selectedCursor) => RowShowsCursorAfter(selectedCursor)]_vars
    /\ [][(lastOp' = "paintGL" /\ shaderCompileSuccess) =>
             /\ \A k \in CursorIds :
                    (\E a \in 1..Len(outlines') : outlines'[a].cursor = k) <=> CursorUsed(k)
             /\ \A a \in 1..Len(outlines') :
                    /\ outlines'[a].lineWidth = (IF outlines'[a].cursor = selectedCursor
                                                     THEN 3 ELSE 1)
                    /\ \A b \in 1..Len(outlines') :
                           a < b => outlines'[a].cursor < outlines'[b].cursor]_vars

\* The selector of the spectrum channel was pressed, a drag has put its
\* markers apart, and the main view has just been drawn: the last outline
\* drawn is the highlighted one, its geometry is that of the spectrum
\* cursor, and the spectrum row shows a delta in hertz while the voltage
\* cursor is untouched.
C36_Witness ==
    /\ lastOp = "paintGL"
    /\ shaderCompileSuccess
    /\ selectedCursor = NumCursors - 1
    /\ Len(outlines) = NumCursors
    /\ outlines[NumCursors].lineWidth = 3
    /\ Selected.shape = "RECTANGULAR"
    /\ Selected.position[0] # Selected.position[1]
    /\ Selected.position[1] = pointer
    /\ vaMarker[selectedCursor] = generateVertices(Selected)
    /\ spectrumCursors[NumChannels - 1].deltaXLabel
           = valueToString((Selected.position[1].x - Selected.position[0].x) * frequencybase,
                           "UNIT_HERTZ")
    /\ cursorInfo[VoltageCursor(0)].position = DefaultPosition


\* The sliders of both views hold the offsets and the trigger levels of the
\* settings.
SlidersMirrored ==
    /\ offsetSlider.main = offset
    /\ offsetSlider.zoom = offset
    /\ \A channel \in Channels :
           /\ triggerLevelSlider.main[channel].value = triggerLevel[channel]
           /\ triggerLevelSlider.zoom[channel].value = triggerLevel[channel]

\* C37 as stated: every handler, the slot of markerMoved included, writes a
\* slider with its signals blocked, so a pointer event makes no slider emit
\* valueChanged; and after every event the offset and trigger level sliders
\* of both views hold the values of the settings.
C37_MirrorWritesBlocked ==
    /\ [][PointerStep => signals' = <<>>]_vars
    /\ []SlidersMirrored

\* C37, amended: updateOffset, updateTriggerLevel and updateTriggerPosition
\* write the sliders with signals blocked, so a slider event emits the
\* slider's valueChanged once and the handler's own signal once; the slot of
\* markerMoved writes the marker slider of the main view unblocked, so a
\* pointer event makes that slider emit valueChanged once per markerMoved,
\* which runs updateMarker once and ends there; and after every event the
\* offset and trigger level sliders of both views hold the values of the
\* settings.
C37_CascadesEndMirrored ==
    /\ [][lastOp' = "offsetSlider" =>
             /\ Len(signals') = 2
             /\ signals'[1][1] = "offsetSlider"
             /\ signals'[2] = <<"offsetChanged", signals'[1][3], signals'[1][4]>>
             /\ offset'[signals'[1][3]] = signals'[1][4]]_vars
    /\ [][lastOp' = "triggerLevelSlider" =>
             /\ Len(signals') = 2
             /\ signals'[1][1] = "triggerLevelSlider"
             /\ signals'[2] = <<"triggerLevelChanged", signals'[1][3], signals'[1][4]>>
             /\ triggerLevel'[signals'[1][3]] = signals'[1][4]]_vars
    /\ [][lastOp' \in {"mainTriggerPositionSlider", "zoomTriggerPositionSlider"} =>
             /\ Len(signals') = 2
             /\ signals'[1][1] = "triggerPositionSlider"
             /\ signals'[2] = <<"triggerPositionChanged", triggerPosition'>>]_vars
    /\ [][PointerStep =>
             /\ Len(signals') = Len(emitted')
             /\ \A k \in 1..Len(signals') :
                    /\ signals'[k][1] = "markerSlider"
                    /\ signals'[k][2] = emitted'[k].marker]_vars
    /\ []SlidersMirrored

\* C37 witness: the offset slider of the main view was moved for the voltage
\* channel, the slider of the zoom view followed, and a trigger level set
\* earlier is still held by the slider of the main view, whose limits follow
\* the offset, after a time marker was dragged.
C37_Witness ==
    /\ lastOp = "offsetSlider"
    /\ signals = <<<<"offsetSlider", TRUE, 0, 200>>, <<"offsetChanged", 0, 200>>>>
    /\ offsetSlider.zoom[0] = 200
    /\ triggerLevelSlider.main[0].value = -1000
    /\ triggerLevelSlider.main[0].minimum = -3000
    /\ cursorInfo[0].position # DefaultPosition


\* The stored trigger position lies in [0, 1].
TriggerPositionInRange ==
    LessEq(minimum, triggerPosition) /\ LessEq(triggerPosition, maximum)

\* A change of the trigger position announced for a slider index other than
\* the first changes nothing and emits nothing.
OtherIndexInert ==
    [][lastOp' = "triggerPositionSliderChanged" =>
          /\ signals' = <<>>
          /\ UNCHANGED <<triggerPosition, mainTriggerPositionSlider,
                         zoomTriggerPositionSlider, cursorInfo, markerSlider,
                         markerInfo, markerTimeLabel, markerFrequencyLabel,
                         vaMarker, offset, triggerLevel, offsetSlider,
                         triggerLevelSlider>>]_vars

\* C38: after any sequence of time-marker moves and of trigger position
\* changes from the main slider and the zoom slider, with values in [0, 1],
\* the stored trigger position is in [0, 1]; and a change made with a slider
\* index other than 0 changes no state and emits nothing.
C38_TriggerPositionInRange ==
    /\ []TriggerPositionInRange
    /\ OtherIndexInert


\* While shader initialisation has not succeeded the history is empty and
\* nothing was drawn or projected.
InertViews ==
    ~shaderCompileSuccess =>
        /\ m_GraphHistory = <<>>
        /\ drawn = <<>>
        /\ traces = <<>>
        /\ outlines = <<>>
        /\ pmvMatrix = <<0, 0>>
        /\ ~m_program

\* An initializeGL after a successful one changes nothing.
SecondInitInert ==
    [][m_program /\ lastOp' = "initializeGL" =>
          UNCHANGED <<historyVars, pointerVars, widgetVars>>]_vars

\* C39: while shader initialisation has not succeeded, no operation modifies
\* the history or touches GPU buffers or the shader program: showData leaves
\* the history empty, paintGL and resizeGL are without effect, and a marker
\* update writes no GPU buffer; and a second initializeGL after a successful
\* one changes nothing.
C39_FailedInitInert ==
    /\ [](InertViews /\ (~shaderCompileSuccess => ~m_marker.written))
    /\ SecondInitInert

====
